---- MODULE Spec2Model ----
(***************************************************************************)
(* Model of the autostart-entry lifecycle manager and of the scoring pass  *)
(* of the suggestion engine (src/processLoad.py).                          *)
(*                                                                         *)
(* The registry and the startup folders are the state.  Every handler is   *)
(* one action: it runs the handler's OS calls in the order of the source,  *)
(* on a working copy "m" of the stores, and commits the result.  Each OS   *)
(* call may raise (an input of the action, "flt.fail"), and the process    *)
(* may die before an OS call (the call "flt.crash").                       *)
(***************************************************************************)
EXTENDS Integers, Sequences, FiniteSets, TLC

-----------------------------------------------------------------------------
(* Bounds of the model *)

\* OS calls that raise an access error within one handler run
MaxFaults == 1

-----------------------------------------------------------------------------
(* The universe: one identity, two hives, two registry views, two folders *)

\* names are token sequences, so that str.replace(".lnk", "") and
\* str.replace(".disabled", "") are real conversions
NameA == <<"a">>
Names == {NameA}
FileBases == {NameA}

HKCU == "HKCU"
HKLM == "HKLM"
None == "None"
Hives == {HKCU, HKLM}

\* winreg.KEY_WOW64_64KEY, winreg.KEY_WOW64_32KEY in the order of the views list
ViewList == <<"v64", "v32">>
Views == {ViewList[i] : i \in 1..Len(ViewList)}

\* startup_paths, in the order of the list
StartupPaths == <<"APPDATA", "ProgramData">>
Folders == {StartupPaths[i] : i \in 1..Len(StartupPaths)}

RunPath == "Software\\Microsoft\\Windows\\CurrentVersion\\Run"
RunDisabledPath == "Software\\Microsoft\\Windows\\CurrentVersion\\RunDisabled"
ApprovedRunPath == "Software\\Microsoft\\Windows\\CurrentVersion\\Explorer\\StartupApproved\\Run"
ApprovedFolderPath == "Software\\Microsoft\\Windows\\CurrentVersion\\Explorer\\StartupApproved\\StartupFolder"
ValueKeys == {RunPath, RunDisabledPath}

\* path.replace("Run", "RunDisabled")
DisabledPathOf(path) == IF path = RunPath THEN RunDisabledPath ELSE path
\* path.replace("Run", r"Explorer\StartupApproved\Run")
ApprovedPathOf(path) == IF path = RunPath THEN ApprovedRunPath ELSE path

\* the approval stores the code addresses: (hive, approved path)
ApprIds == {<<HKCU, ApprovedRunPath>>, <<HKLM, ApprovedRunPath>>, <<HKCU, ApprovedFolderPath>>}

\* registry values: data and type; NoVal is "no such value"
NoVal == [data |-> "", type |-> "NONE"]
Val1 == [data |-> "c1", type |-> "REG_SZ"]
Val2 == [data |-> "c2", type |-> "REG_EXPAND_SZ"]
ValEmpty == [data |-> "", type |-> "REG_SZ"]

\* StartupApproved records: first byte and length; NoFlag is "no such value"
EnabledByte == 2
DisabledByte == 3
PadLen == 7
StatusPadLen == 11
NoFlag == [b0 |-> 0, len |-> 0]
ApprovalData(action) ==
    [b0 |-> IF action = "enable" THEN EnabledByte ELSE DisabledByte, len |-> 1 + PadLen]

\* shortcut files: content; NoFile is "no such file"
NoFile == "nofile"

\* Python truthiness of a path, hive or command
Truthy(x) == x # None /\ x # ""

\* str.lower(), on the characters of the universe
LowerTok(t) == CASE t = "A" -> "a" [] OTHER -> t
LowerName(n) == [i \in 1..Len(n) |-> LowerTok(n[i])]
LowerStr(s) == CASE s = "C1" -> "c1" [] s = "C2" -> "c2" [] OTHER -> s

\* name.replace(".lnk", "").replace(".disabled", "")
StripTokens(n) == SelectSeq(n, LAMBDA t : t # ".lnk" /\ t # ".disabled")
\* disabled_shortcut.replace(".disabled", ""), on the file's base name
StripDisabled(n) == SelectSeq(n, LAMBDA t : t # ".disabled")

\* os.path.join(spath, f"{name}.lnk") and its ".disabled" variant, as text
NameText(n) == IF n = <<>> THEN "" ELSE IF Len(n) = 1 THEN n[1] ELSE n[1] \o n[2]
ShortcutPath(f, b, disabled) ==
    f \o "\\" \o NameText(b) \o ".lnk" \o (IF disabled THEN ".disabled" ELSE "")
\* str(cmd).lower().endswith(".lnk.disabled")
EndsWithLnkDisabled(cmd) ==
    \E f \in Folders, b \in FileBases : cmd = ShortcutPath(f, b, TRUE)

-----------------------------------------------------------------------------
(* State *)

VARIABLES
    reg,            \* reg[hive][key][name]: the Run and RunDisabled values
    approved,       \* approved[id][view][name]: the StartupApproved records
    lnk,            \* lnk[folder][base]: <base>.lnk
    lnk_disabled,   \* lnk_disabled[folder][base]: <base>.lnk.disabled
    platform,       \* what the machine is: fixed at start
    table_startup,  \* rows of the Startup tab, as last refreshed
    lastOp,         \* what the last handler did and reported
    user_prefs,     \* SuggestionEngine.user_prefs: whitelist and blacklist
    scan_in,        \* what the last scan_for_suggestions was given
    suggestions,    \* what the last scan_for_suggestions returned
    prev_disk,      \* self.prev_disk: pid -> (read_bytes, write_bytes) last seen
    prev_net,       \* self.prev_net: pid -> (other_count, read_count) last seen
    gui_proc_map,   \* self.proc_map: the result of the last _gather_proc_scores
    os_seen,        \* the process table the last _gather_proc_scores iterated
    ai_file,        \* the history file of the AI engine, as it is on disk
    ai_history,     \* AISuggestionsEngine.history
    ai_trends,      \* AISuggestionsEngine.trends: pid -> deque of (ts, rss)
    ai_lock,        \* the owner of AISuggestionsEngine._lock, 0 when free
    ai_worker,      \* ai_worker[w]: the worker thread w of the AI button
    ai_clock,       \* time.time(), counted in scans
    ai_appended,    \* pid -> every record loaded or appended to its trend list
    gui_pc          \* where the GUI thread is in _refresh_suggestions

lifecycleVars == <<reg, approved, lnk, lnk_disabled, platform, table_startup, lastOp>>
scanVars == <<user_prefs, scan_in, suggestions>>
samplerVars == <<prev_disk, prev_net, gui_proc_map, os_seen>>
aiVars == <<ai_file, ai_history, ai_trends, ai_lock, ai_worker, ai_clock, ai_appended, gui_pc>>
vars == <<reg, approved, lnk, lnk_disabled, platform, table_startup, lastOp,
          user_prefs, scan_in, suggestions, prev_disk, prev_net, gui_proc_map,
          os_seen, ai_file, ai_history, ai_trends, ai_lock, ai_worker, ai_clock,
          ai_appended, gui_pc>>

\* does the StartupApproved key exist in that view
KeyExists(aid, v) == v \notin platform.missing

-----------------------------------------------------------------------------
(* Faults: the outcome of the OS calls of one handler run *)

Never == "never"
NoFault == [fail |-> {}, crash |-> Never]

\* the OS calls of the handlers
ApprovalCalls == {"appr_" \o v : v \in Views}

\* the working copy a handler starts from
Start ==
    [reg |-> reg, approved |-> approved, lnk |-> lnk, lnk_disabled |-> lnk_disabled,
     mode |-> "run", called |-> {}, failed |-> {}, log |-> {}, errlog |-> {}, warned |-> FALSE,
     wrote |-> {}, errs |-> {}, restored |-> FALSE]

\* one OS call: the process may die before it, or the call may raise
Call(m, flt, id) ==
    IF m.mode # "run" THEN m
    ELSE IF flt.crash = id THEN [m EXCEPT !.mode = "crashed", !.called = @ \cup {id}]
    ELSE IF id \in flt.fail
    THEN [m EXCEPT !.mode = "raised", !.called = @ \cup {id}, !.failed = @ \cup {id}]
    ELSE [m EXCEPT !.called = @ \cup {id}]

\* the runs of a handler: at most MaxFaults of the calls it makes raise, or the
\* process is killed before one of the calls of its undisturbed run
FaultsOf(Run(_)) ==
    LET Failing(F) == [fail |-> F, crash |-> Never]
        R[k \in 0..MaxFaults] ==
            IF k = 0 THEN {{}}
            ELSE R[k - 1] \cup UNION {{F \cup {x} : x \in Run(Failing(F)).called} : F \in R[k - 1]}
    IN  {Failing(F) : F \in R[MaxFaults]}
        \cup {[fail |-> {}, crash |-> c] : c \in Run(NoFault).called}

\* winreg.SetValueEx(key, name, 0, type, data) under an opened or created key
SetValue(m, flt, id, h, key, name, val, tag) ==
    LET c == Call(m, flt, id)
    IN  IF m.mode = "run" /\ c.mode = "run"
        THEN [c EXCEPT !.reg[h][key][name] = val, !.wrote = @ \cup {tag}]
        ELSE c

\* winreg.DeleteValue(key, name) of a value that exists
DeleteValue(m, flt, id, h, key, name, tag) ==
    LET c == Call(m, flt, id)
    IN  IF m.mode = "run" /\ c.mode = "run"
        THEN [c EXCEPT !.reg[h][key][name] = NoVal, !.wrote = @ \cup {tag}]
        ELSE c

Log(m, tag) == IF m.mode = "run" THEN [m EXCEPT !.log = @ \cup {tag}] ELSE m

\* an exception caught where it was raised: the handler goes on
Caught(c, tag) == [c EXCEPT !.mode = "run", !.errlog = @ \cup {tag}]

\* os.path.exists / the content of a shortcut file
FileAt(store, f, b) == IF b \in FileBases THEN store[f][b] ELSE NoFile

-----------------------------------------------------------------------------
(* StartupApproved: _write_startup_approved_for_views, _set_startup_approval *)

\* one turn of the loop over the views: OpenKey(KEY_SET_VALUE | view), SetValueEx
WriteView(m, flt, aid, v, name, data) ==
    IF m.mode # "run" THEN m
    ELSE LET c == Call(m, flt, "appr_" \o v)
         IN  IF c.mode = "crashed" THEN c
             ELSE IF ~KeyExists(aid, v)
                  THEN [c EXCEPT !.mode = "run", !.failed = m.failed] \* FileNotFoundError: continue
             ELSE IF c.mode = "raised"
                  THEN [c EXCEPT !.mode = "run", !.errs = @ \cup {v}] \* errors.append(e)
             ELSE [c EXCEPT !.approved[aid][v][name] = data,
                            !.wrote = @ \cup {"approval_" \o v}]

RECURSIVE WriteViewsFrom(_, _, _, _, _, _)
WriteViewsFrom(i, m, flt, aid, name, data) ==
    IF i > Len(ViewList) THEN m
    ELSE WriteViewsFrom(i + 1, WriteView(m, flt, aid, ViewList[i], name, data),
                        flt, aid, name, data)

WriteStartupApprovedForViews(m, flt, aid, name, data) ==
    WriteViewsFrom(1, [m EXCEPT !.errs = {}], flt, aid, name, data)

\* the body of _delete_startup_approved_for_views: DeleteValue in every view
DeleteStartupApprovedForViews(m, aid, name) ==
    [m EXCEPT !.approved[aid] = [v \in Views |-> [@[v] EXCEPT ![name] = NoFlag]]]

\* the function declares (hive, subkey, name); it is called as a bound method
\* with (hive, approved_path, name), which passes self as well
DeleteApprovedParams == 3
DeleteApprovedArgs == 4

\* self._delete_startup_approved_for_views(hive, approved_path, name)
CallDeleteStartupApproved(m, aid, name) ==
    IF DeleteApprovedArgs = DeleteApprovedParams
    THEN DeleteStartupApprovedForViews(m, aid, name)
    ELSE [m EXCEPT !.mode = "raised"]                                 \* TypeError

SetStartupApproval(m, flt, hive, path, name, action) ==
    IF m.mode # "run" THEN m
    ELSE
    LET aid == IF Truthy(path) THEN <<hive, ApprovedPathOf(path)>>
               ELSE <<HKCU, ApprovedFolderPath>>
    IN  IF action \in {"enable", "disable"}
        THEN LET w == WriteStartupApprovedForViews(m, flt, aid, name, ApprovalData(action))
             IN  IF w.mode # "run" THEN w
                 ELSE IF w.errs # {}
                 THEN [w EXCEPT !.errlog = @ \cup {"approval_" \o v : v \in w.errs}]
                 ELSE Log(w, "approval_" \o action)
        ELSE LET d == CallDeleteStartupApproved(m, aid, name)
             IN  IF d.mode = "raised"
                 THEN [Caught(d, "approval_delete") EXCEPT !.warned = TRUE]
                 ELSE d

-----------------------------------------------------------------------------
(* Disable: _disable_startup_entry_ui *)

\* the registry branch without the handler of FileNotFoundError around the read
DisableRegistryUnguarded(m, flt, hive, path, name) ==
    LET q == Call(m, flt, "query")
        value == m.reg[hive][path][name]
        moved == IF q.mode = "run" /\ value # NoVal
                 THEN DeleteValue(
                          SetValue(q, flt, "set_shadow", hive, DisabledPathOf(path),
                                   name, value, "shadow"),
                          flt, "del_primary", hive, path, name, "primary")
                 ELSE IF q.mode = "run" THEN [q EXCEPT !.mode = "raised"]
                 ELSE q
    IN  SetStartupApproval(moved, flt, hive, path, name, "disable")

DisableRegistry(m, flt, hive, path, name) ==
    LET q == Call(m, flt, "query")
        value == m.reg[hive][path][name]
        moved == IF q.mode = "run" /\ value # NoVal
                 THEN DeleteValue(
                          SetValue(q, flt, "set_shadow", hive, DisabledPathOf(path),
                                   name, value, "shadow"),
                          flt, "del_primary", hive, path, name, "primary")
                 ELSE q
    IN  SetStartupApproval(moved, flt, hive, path, name, "disable")

\* one turn of the loop over startup_paths: os.rename(shortcut, shortcut + ".disabled")
RenameToDisabled(m, flt, spath, name) ==
    IF m.mode # "run" \/ FileAt(m.lnk, spath, name) = NoFile THEN m
    ELSE LET c == Call(m, flt, "rename_" \o spath)
         IN  IF c.mode # "run" THEN c
             ELSE IF FileAt(m.lnk_disabled, spath, name) # NoFile
                  THEN [c EXCEPT !.mode = "raised"]                   \* FileExistsError
             ELSE [c EXCEPT !.lnk[spath][name] = NoFile,
                            !.lnk_disabled[spath][name] = m.lnk[spath][name],
                            !.log = @ \cup {"renamed"},
                            !.wrote = @ \cup {"shortcut_" \o spath}]

RECURSIVE RenameFrom(_, _, _, _)
RenameFrom(i, m, flt, name) ==
    IF i > Len(StartupPaths) THEN m
    ELSE RenameFrom(i + 1, RenameToDisabled(m, flt, StartupPaths[i], name), flt, name)

DisableFolder(m, flt, hive, path, name) ==
    SetStartupApproval(RenameFrom(1, m, flt, name), flt, hive, path, name, "disable")

DisableStartupEntry(m, flt, hive, path, name) ==
    IF Truthy(path) THEN DisableRegistry(m, flt, hive, path, name)
    ELSE DisableFolder(m, flt, hive, path, name)

-----------------------------------------------------------------------------
(* Enable: _enable_startup_entry_ui *)

\* the registry branch with the RunDisabled value deleted before the Run value
\* is written
EnableRegistryDeleteFirst(m, flt, hive, path, name, cmd) ==
    LET disabled_path == DisabledPathOf(path)
        q == Call(m, flt, "query")
        value == m.reg[hive][disabled_path][name]
        restoredValue ==
            IF q.mode # "run" THEN q
            ELSE IF value # NoVal
            THEN SetValue(
                     DeleteValue(q, flt, "del_shadow", hive, disabled_path, name, "shadow"),
                     flt, "set_primary", hive, path, name, value, "primary")
            ELSE IF Truthy(cmd)
            THEN SetValue(q, flt, "recreate", hive, path, name,
                          [data |-> cmd, type |-> "REG_SZ"], "primary")
            ELSE q
    IN  SetStartupApproval(restoredValue, flt, hive, path, name, "enable")

EnableRegistry(m, flt, hive, path, name, cmd) ==
    LET disabled_path == DisabledPathOf(path)
        q == Call(m, flt, "query")
        value == m.reg[hive][disabled_path][name]
        restoredValue ==
            IF q.mode # "run" THEN q
            ELSE IF value # NoVal
            THEN DeleteValue(
                     SetValue(q, flt, "set_primary", hive, path, name, value, "primary"),
                     flt, "del_shadow", hive, disabled_path, name, "shadow")
            ELSE IF Truthy(cmd)                                       \* except FileNotFoundError
            THEN SetValue(q, flt, "recreate", hive, path, name,
                          [data |-> cmd, type |-> "REG_SZ"], "primary")
            ELSE q
    IN  SetStartupApproval(restoredValue, flt, hive, path, name, "enable")

\* shutil.copy2(disabled_shortcut, original_shortcut); os.remove(disabled_shortcut)
FallbackCopy(m, flt, spath, name, original) ==
    LET cp == Call(m, flt, "copy_" \o spath)
    IN  IF cp.mode = "crashed" THEN cp
        ELSE IF cp.mode = "raised" THEN Caught(cp, "fallback_copy_failed")
        ELSE LET copied == [cp EXCEPT !.lnk[spath][original] = m.lnk_disabled[spath][name],
                                      !.wrote = @ \cup {"shortcut_" \o spath}]
                 rm == Call(copied, flt, "remove_" \o spath)
             IN  IF rm.mode = "crashed" THEN rm
                 ELSE IF rm.mode = "raised" THEN Caught(rm, "fallback_copy_failed")
                 ELSE [rm EXCEPT !.lnk_disabled[spath][name] = NoFile,
                                 !.log = @ \cup {"copied"},
                                 !.restored = TRUE]

\* the turn of the loop without the test for an existing <name>.lnk, the move
\* replacing what is there
RestoreShortcutOverwriting(m, flt, spath, name) ==
    LET original == StripDisabled(name)
    IN  IF m.mode # "run" \/ FileAt(m.lnk_disabled, spath, name) = NoFile THEN m
        ELSE LET c == Call(m, flt, "rename_" \o spath)
             IN  IF c.mode # "run" THEN [c EXCEPT !.mode = IF @ = "raised" THEN "run" ELSE @]
                 ELSE [c EXCEPT !.lnk[spath][original] = m.lnk_disabled[spath][name],
                                !.lnk_disabled[spath][name] = NoFile,
                                !.log = @ \cup {"restored"},
                                !.wrote = @ \cup {"shortcut_" \o spath},
                                !.restored = TRUE]

\* one turn of the loop over startup_paths
RestoreShortcut(m, flt, spath, name) ==
    LET original == StripDisabled(name)
    IN  IF m.mode # "run" \/ FileAt(m.lnk_disabled, spath, name) = NoFile THEN m
        ELSE IF FileAt(m.lnk, spath, original) # NoFile
        THEN Log(m, "skip_keeping_both")
        ELSE LET c == Call(m, flt, "rename_" \o spath)
             IN  IF c.mode = "crashed" THEN c
                 ELSE IF c.mode = "raised"                             \* PermissionError
                 THEN FallbackCopy([c EXCEPT !.mode = "run"], flt, spath, name, original)
                 ELSE LET o == Call(c, flt, "rename_other_" \o spath)
                      IN  IF o.mode = "crashed" THEN o
                          ELSE IF o.mode = "raised"                    \* any other exception
                          THEN Caught(o, "rename_failed")
                          ELSE [o EXCEPT !.lnk[spath][original] = m.lnk_disabled[spath][name],
                                         !.lnk_disabled[spath][name] = NoFile,
                                         !.log = @ \cup {"restored"},
                                         !.wrote = @ \cup {"shortcut_" \o spath},
                                         !.restored = TRUE]

RECURSIVE RestoreFrom(_, _, _, _)
RestoreFrom(i, m, flt, name) ==
    IF i > Len(StartupPaths) THEN m
    ELSE RestoreFrom(i + 1, RestoreShortcut(m, flt, StartupPaths[i], name), flt, name)

EnableFolder(m, flt, hive, path, name) ==
    LET r == RestoreFrom(1, [m EXCEPT !.restored = FALSE], flt, name)
        w == IF r.restored THEN r ELSE Log(r, "warn_no_disabled_shortcut")
    IN  SetStartupApproval(w, flt, hive, path, name, "enable")

EnableStartupEntry(m, flt, hive, path, name, cmd) ==
    IF Truthy(path) THEN EnableRegistry(m, flt, hive, path, name, cmd)
    ELSE EnableFolder(m, flt, hive, path, name)

-----------------------------------------------------------------------------
(* Delete: _delete_startup_entry_ui *)

\* OpenKey(KEY_SET_VALUE), DeleteValue; FileNotFoundError is passed over
DeleteIfPresent(m, flt, id, hive, key, name, tag) ==
    LET c == Call(m, flt, id)
    IN  IF m.mode = "run" /\ c.mode = "run" /\ m.reg[hive][key][name] # NoVal
        THEN [c EXCEPT !.reg[hive][key][name] = NoVal,
                       !.log = @ \cup {"deleted_" \o tag},
                       !.wrote = @ \cup {tag}]
        ELSE c

DeleteRegistry(m, flt, hive, path, name) ==
    DeleteIfPresent(
        DeleteIfPresent(m, flt, "del_primary", hive, path, name, "primary"),
        flt, "del_shadow", hive, DisabledPathOf(path), name, "shadow")

\* os.remove(shortcut) of <name>.lnk, inside its own try
RemoveLnk(m, flt, spath, name) ==
    IF m.mode # "run" \/ FileAt(m.lnk, spath, name) = NoFile THEN m
    ELSE LET c == Call(m, flt, "remove_lnk_" \o spath)
         IN  IF c.mode = "crashed" THEN c
             ELSE IF c.mode = "raised"
             THEN [Caught(c, "remove_failed") EXCEPT !.warned = TRUE]
             ELSE [c EXCEPT !.lnk[spath][name] = NoFile,
                            !.log = @ \cup {"deleted_shortcut"},
                            !.wrote = @ \cup {"shortcut_" \o spath}]

\* os.remove(shortcut) of <name>.lnk.disabled, inside its own try
RemoveLnkDisabled(m, flt, spath, name) ==
    IF m.mode # "run" \/ FileAt(m.lnk_disabled, spath, name) = NoFile THEN m
    ELSE LET c == Call(m, flt, "remove_" \o spath)
         IN  IF c.mode = "crashed" THEN c
             ELSE IF c.mode = "raised"
             THEN [Caught(c, "remove_failed") EXCEPT !.warned = TRUE]
             ELSE [c EXCEPT !.lnk_disabled[spath][name] = NoFile,
                            !.log = @ \cup {"deleted_shortcut"},
                            !.wrote = @ \cup {"shadow_" \o spath}]

RECURSIVE RemoveFrom(_, _, _, _)
RemoveFrom(i, m, flt, name) ==
    IF i > Len(StartupPaths) THEN m
    ELSE RemoveFrom(i + 1,
                    RemoveLnkDisabled(RemoveLnk(m, flt, StartupPaths[i], name),
                                      flt, StartupPaths[i], name),
                    flt, name)

DeleteFolder(m, flt, hive, path, name) == RemoveFrom(1, m, flt, name)

\* a Delete that goes through the registry branch for every entry
DeleteStartupEntryUiBoth(m, flt, hive, path, name) ==
    LET a == SetStartupApproval(m, flt, hive, path, name, "delete")
    IN  IF Truthy(path) THEN DeleteRegistry(a, flt, hive, path, name)
        ELSE DeleteFolder(DeleteRegistry(a, flt, HKCU, RunPath, name), flt, hive, path, name)

\* the approval record first, then the representations
DeleteStartupEntryUi(m, flt, hive, path, name) ==
    LET a == SetStartupApproval(m, flt, hive, path, name, "delete")
    IN  IF Truthy(path) THEN DeleteRegistry(a, flt, hive, path, name)
        ELSE DeleteFolder(a, flt, hive, path, name)

-----------------------------------------------------------------------------
(* The methods that act without refreshing the Startup tab *)

\* SuggestionEngine.disable_startup_entry, with backup_registry_value
SuggestionDisableEntry(m, flt, hive, path, name) ==
    LET b == Call(m, flt, "backup")
        value == IF Truthy(hive) /\ Truthy(path) THEN m.reg[hive][path][name] ELSE NoVal
        backed == IF b.mode = "crashed" THEN b
                  ELSE IF b.mode = "raised" \/ value = NoVal
                  THEN [b EXCEPT !.mode = "run"]                      \* backup is None
                  ELSE Log(b, "backup")
        d == Call(backed, flt, "del_primary")
    IN  IF d.mode # "run" THEN d
        ELSE IF value = NoVal THEN [d EXCEPT !.mode = "raised"]       \* TypeError, FileNotFoundError
        ELSE [d EXCEPT !.reg[hive][path][name] = NoVal, !.wrote = @ \cup {"primary"}]

\* PerformanceMonitorGUI.set_startup_status: the process's own view only
SetStartupStatus(m, flt, hive, path, name, enabled, cmd) ==
    IF ~Truthy(path) THEN [m EXCEPT !.mode = "raised"]                \* None.replace
    ELSE
    LET aid == <<hive, ApprovedPathOf(path)>>
        v == platform.native
        c == Call(m, flt, "appr_" \o v)
        data == [b0 |-> IF enabled THEN EnabledByte ELSE DisabledByte,
                 len |-> 1 + StatusPadLen]
        w == IF c.mode # "run" THEN c
             ELSE IF ~KeyExists(aid, v) THEN [c EXCEPT !.mode = "raised"]
             ELSE [c EXCEPT !.approved[aid][v][name] = data,
                            !.wrote = @ \cup {"approval_" \o v}]
    IN  IF w.mode = "run" /\ enabled /\ Truthy(cmd)
        THEN LET r == Call(w, flt, "recreate")
             IN  IF r.mode = "crashed" THEN r
                 ELSE IF r.mode = "raised" THEN [r EXCEPT !.mode = "run"]   \* except OSError: pass
                 ELSE [r EXCEPT !.reg[hive][path][name] = [data |-> cmd, type |-> "REG_SZ"],
                                !.wrote = @ \cup {"primary"}]
        ELSE w

\* os.remove(shortcut) in delete_startup_entry: except Exception: pass
RemoveLnkQuietly(m, flt, spath, name) ==
    IF m.mode # "run" \/ FileAt(m.lnk, spath, name) = NoFile THEN m
    ELSE LET c == Call(m, flt, "remove_lnk_" \o spath)
         IN  IF c.mode = "crashed" THEN c
             ELSE IF c.mode = "raised" THEN [c EXCEPT !.mode = "run"]
             ELSE [c EXCEPT !.lnk[spath][name] = NoFile,
                            !.wrote = @ \cup {"shortcut_" \o spath}]

RECURSIVE RemoveQuietlyFrom(_, _, _, _)
RemoveQuietlyFrom(i, m, flt, name) ==
    IF i > Len(StartupPaths) THEN m
    ELSE RemoveQuietlyFrom(i + 1, RemoveLnkQuietly(m, flt, StartupPaths[i], name), flt, name)

\* OpenKey(approved_path, KEY_SET_VALUE), DeleteValue in the process's own view
DeleteApprovedNative(m, flt, aid, name) ==
    LET v == platform.native
        c == Call(m, flt, "appr_" \o v)
    IN  IF m.mode = "run" /\ c.mode = "run" /\ KeyExists(aid, v)
           /\ m.approved[aid][v][name] # NoFlag
        THEN [c EXCEPT !.approved[aid][v][name] = NoFlag,
                       !.wrote = @ \cup {"approval_" \o v}]
        ELSE c

\* PerformanceMonitorGUI.delete_startup_entry
DeleteStartupEntry(m, flt, hive, path, name) ==
    IF Truthy(path)
    THEN DeleteApprovedNative(
             LET c == Call(m, flt, "del_primary")
             IN  IF c.mode = "run" /\ m.reg[hive][path][name] # NoVal
                 THEN [c EXCEPT !.reg[hive][path][name] = NoVal,
                                !.wrote = @ \cup {"primary"}]
                 ELSE c,
             flt, <<hive, ApprovedPathOf(path)>>, name)
    ELSE DeleteApprovedNative(RemoveQuietlyFrom(1, m, flt, name),
                              flt, <<HKCU, ApprovedFolderPath>>, name)

-----------------------------------------------------------------------------
(* Enumeration: list_registry_startup and _update_startup_tab *)

\* reg_paths, and the order in which EnumValue and os.listdir give the names
HiveList == <<HKCU, HKLM>>
NameList == <<NameA>>
FileBaseList == <<NameA>>

Entry(hive, path, name, cmd) == [hive |-> hive, path |-> path, name |-> name, cmd |-> cmd]

RECURSIVE RunValuesFrom(_, _, _)
RunValuesFrom(i, r, hive) ==
    IF i > Len(NameList) THEN <<>>
    ELSE (IF r[hive][RunPath][NameList[i]] # NoVal
          THEN <<Entry(hive, RunPath, NameList[i], r[hive][RunPath][NameList[i]].data)>>
          ELSE <<>>) \o RunValuesFrom(i + 1, r, hive)

RECURSIVE HivesFrom(_, _)
HivesFrom(i, r) ==
    IF i > Len(HiveList) THEN <<>>
    ELSE RunValuesFrom(1, r, HiveList[i]) \o HivesFrom(i + 1, r)

\* SuggestionEngine.list_registry_startup (the wmi module is not installed)
ListRegistryStartup(r) == HivesFrom(1, r)

RECURSIVE FilesFrom(_, _, _, _)
FilesFrom(i, l, ld, sdir) ==
    IF i > Len(FileBaseList) THEN <<>>
    ELSE LET b == FileBaseList[i]
         IN  (IF l[sdir][b] # NoFile
              THEN <<Entry(None, None, StripTokens(b), ShortcutPath(sdir, b, FALSE))>>
              ELSE <<>>)
             \o (IF ld[sdir][b] # NoFile
                 THEN <<Entry(None, None, StripTokens(b), ShortcutPath(sdir, b, TRUE))>>
                 ELSE <<>>)
             \o FilesFrom(i + 1, l, ld, sdir)

RECURSIVE FoldersFrom(_, _, _)
FoldersFrom(i, l, ld) ==
    IF i > Len(StartupPaths) THEN <<>>
    ELSE FilesFrom(1, l, ld, StartupPaths[i]) \o FoldersFrom(i + 1, l, ld)

FolderEntries(l, ld) == FoldersFrom(1, l, ld)

\* key = (str(name).lower(), str(cmd or "").lower()); the first record of a key is kept
DedupKey(e) == <<LowerName(e.name), LowerStr(e.cmd)>>

RECURSIVE Dedup(_)
Dedup(s) ==
    IF s = <<>> THEN <<>>
    ELSE LET d == Dedup(SubSeq(s, 1, Len(s) - 1))
             e == s[Len(s)]
         IN  IF \E i \in 1..Len(d) : DedupKey(d[i]) = DedupKey(e) THEN d ELSE Append(d, e)

\* the "Startup Status" cell of a row
StatusOf(e, a, denied) ==
    IF Truthy(e.path)
    THEN IF ~platform.dblSlash \/ ~KeyExists(<<e.hive, ApprovedRunPath>>, platform.native)
         THEN "Enabled"                                               \* FileNotFoundError
         ELSE IF denied THEN "Unknown"                                \* OSError
         ELSE LET val == a[<<e.hive, ApprovedRunPath>>][platform.native][e.name]
              IN  IF val.len > 0 /\ val.b0 = DisabledByte THEN "Disabled" ELSE "Enabled"
    ELSE IF Truthy(e.cmd) /\ EndsWithLnkDisabled(LowerStr(e.cmd)) THEN "Disabled"
         ELSE IF ~KeyExists(<<HKCU, ApprovedFolderPath>>, platform.native) THEN "Enabled"
         ELSE IF denied THEN "Unknown"
         ELSE LET val == a[<<HKCU, ApprovedFolderPath>>][platform.native][e.name]
              IN  IF val.len > 0 /\ val.b0 = DisabledByte THEN "Disabled" ELSE "Enabled"

\* the rows _update_startup_tab puts in the table
UpdateStartupTab(r, a, l, ld, denied) ==
    LET entries == Dedup(Dedup(ListRegistryStartup(r)) \o FolderEntries(l, ld))
    IN  [i \in 1..Len(entries) |->
            [hive |-> entries[i].hive, path |-> entries[i].path, name |-> entries[i].name,
             cmd |-> entries[i].cmd, status |-> StatusOf(entries[i], a, denied)]]

-----------------------------------------------------------------------------
(* What a handler run leaves behind *)

\* the primary representation of an entry: its Run value, or its shortcuts
Snapshot(hive, path, name) ==
    [val |-> IF Truthy(path) THEN reg[hive][path][name] ELSE NoVal,
     files |-> [f \in Folders |-> IF Truthy(path) THEN NoFile ELSE FileAt(lnk, f, name)]]

NoSnapshot == [val |-> NoVal, files |-> [f \in Folders |-> NoFile]]

NoSummary ==
    [op |-> "none", hive |-> None, path |-> None, name |-> <<>>, clean |-> FALSE,
     status |-> "", pre |-> NoSnapshot]

\* nothing was reported: no dialog, no error line, normal return
Clean(o) == o.end = "returned" /\ o.ok /\ ~o.warned /\ o.errlog = {}

Summary(o) ==
    [op |-> o.op, hive |-> o.hive, path |-> o.path, name |-> o.name, clean |-> Clean(o),
     status |-> o.status, pre |-> o.pre]

\* is o a Disable of the entry (hive, path, name) that reported nothing
CleanDisableOf(o, e) ==
    o.op = "disable" /\ Clean(o) /\ o.hive = e.hive /\ o.path = e.path /\ o.name = e.name

\* the outer "except Exception" of a handler: a warning dialog and an error line
Outcome(m, op, e, status) ==
    [op |-> op, hive |-> e.hive, path |-> e.path, name |-> e.name, cmd |-> e.cmd,
     status |-> status,
     end |-> IF m.mode = "crashed" THEN "crashed" ELSE "returned",
     ok |-> m.mode = "run",
     warned |-> m.warned \/ (m.mode = "raised" /\ op \in {"disable", "enable", "delete"}),
     failed |-> m.failed,
     log |-> m.log,
     errlog |-> m.errlog \cup (IF m.mode = "raised" /\ op \in {"disable", "enable", "delete"}
                               THEN {"failed"} ELSE {}),
     wrote |-> m.wrote,
     pre |-> IF op = "disable" THEN Snapshot(e.hive, e.path, e.name) ELSE NoSnapshot,
     prev |-> IF op = "enable" /\ CleanDisableOf(lastOp, e) THEN Summary(lastOp)
              ELSE NoSummary]

\* the stores after the run; a killed process comes back with an empty table
Commit(m, o, refresh, denied) ==
    /\ reg' = m.reg
    /\ approved' = m.approved
    /\ lnk' = m.lnk
    /\ lnk_disabled' = m.lnk_disabled
    /\ lastOp' = o
    /\ table_startup' =
          IF m.mode = "crashed" THEN <<>>
          ELSE IF refresh THEN UpdateStartupTab(m.reg, m.approved, m.lnk, m.lnk_disabled, denied)
          ELSE table_startup
    /\ UNCHANGED <<platform, scanVars, samplerVars, aiVars>>

RowEntry(row) == Entry(row.hive, row.path, row.name, row.cmd)

-----------------------------------------------------------------------------
(* SuggestionEngine.scan_for_suggestions *)

\* texts of the scan are sequences of chunks, so that "in" is a search
LowerChunk(t) ==
    CASE t = "Update" -> "update" [] t = "App" -> "app" [] t = "Microsoft" -> "microsoft"
      [] t = "Temp" -> "temp" [] t = "Unknown" -> "unknown" [] t = "System" -> "system"
      [] OTHER -> t
\* str.lower()
Lower(s) == [i \in 1..Len(s) |-> LowerChunk(s[i])]
\* needle in hay
IsIn(needle, hay) ==
    \E i \in 0..(Len(hay) - Len(needle)) : SubSeq(hay, i + 1, i + Len(needle)) = needle

\* numbers are fixed point: cpu and mem in tenths, score_numeric in hundredths,
\* the disk delta in MiB, the weighted sum of score_item in thousandths
Thousandth == 1000

\* the tuple _gather_proc_scores stores for a process
ProcInfo(name, cpu, mem, disk_delta, net_ops) ==
    <<name, cpu, mem, disk_delta, net_ops,
      cpu * 20 + mem * 15 + disk_delta * 100 + net_ops>>

StartupBonus == 15
SuspiciousBonus == 20
ScoreCap == 100
BatteryLow == 20
BatteryBoost == 10
DiskFull == 90
DiskBoost == 10
FullscreenLimit == 70
FullscreenPenalty == 15
StartupThreshold == 60
ServiceThreshold == 50
NotRunningScore == 20
DefaultDiskPct == 50

MinOf(a, b) == IF a < b THEN a ELSE b

\* score_item with the cap taken as a remainder instead of a minimum
score_item_wrapped(cpu, mem, disk, net, startup, suspicious) ==
    LET base == cpu * 200 + mem * 50 + disk * 300 + net * 3
                + (IF startup THEN StartupBonus * Thousandth ELSE 0)
                + (IF suspicious THEN SuspiciousBonus * Thousandth ELSE 0)
    IN  (base \div Thousandth) % (ScoreCap + 1)

\* score_item; cpu and mem in tenths, disk a count, net in hundredths
score_item(cpu, mem, disk, net, startup, suspicious) ==
    LET base == cpu * 200 + mem * 50 + disk * 300 + net * 3
                + (IF startup THEN StartupBonus * Thousandth ELSE 0)
                + (IF suspicious THEN SuspiciousBonus * Thousandth ELSE 0)
    IN  MinOf(ScoreCap, base \div Thousandth)

\* hasattr(self, "is_fullscreen_app_running"): no class defines the method
HasFullscreenProbe == FALSE
NoBattery == [present |-> FALSE, percent |-> 0]
\* battery, disk_pct, fullscreen as the try block leaves them
Context(battery, disk_pct, probe, raised) ==
    IF raised THEN [battery |-> NoBattery, disk_pct |-> DefaultDiskPct, fullscreen |-> FALSE]
    ELSE [battery |-> battery, disk_pct |-> disk_pct,
          fullscreen |-> IF HasFullscreenProbe THEN probe ELSE FALSE]

\* the conditions under which a process of proc_map matches
StartupMatches(name, cmd, info) ==
    LET nm == Lower(info[1])
    IN  (name # <<>> /\ IsIn(Lower(name), nm)) \/ (cmd # <<>> /\ IsIn(nm, Lower(cmd)))
ServiceMatches(binpath, info) ==
    info[1] # <<>> /\ IsIn(Lower(info[1]), Lower(binpath))
\* the first process of proc_map that matches, 0 when none does
FirstMatch(proc_map, Matches(_)) ==
    LET hits == {i \in 1..Len(proc_map) : Matches(proc_map[i].info)}
    IN  IF hits = {} THEN 0 ELSE CHOOSE i \in hits : \A j \in hits : i <= j

Suggestion(name, kind, s, advice, action, matched) ==
    [name |-> name, kind |-> kind, score |-> s, advice |-> advice,
     action |-> action, matched |-> matched]

\* the body of the startup loop for one entry
StartupSuggestion(e, proc_map, ctx, prefs) ==
    IF e.name \in prefs.whitelist THEN <<>>
    ELSE
    LET suspicious == ~IsIn(<<"update">>, Lower(e.name))
                      /\ ~IsIn(<<"microsoft">>, Lower(e.cmd))
        k == FirstMatch(proc_map, LAMBDA info : StartupMatches(e.name, e.cmd, info))
    IN  IF k # 0
        THEN LET info == proc_map[k].info
                 s0 == score_item(info[2], info[3], info[5], info[6], TRUE, suspicious)
                 s1 == IF ctx.battery.present /\ ctx.battery.percent < BatteryLow
                       THEN s0 + BatteryBoost ELSE s0
                 s == IF ctx.disk_pct > DiskFull THEN s1 + DiskBoost ELSE s1
             IN  IF e.name \in prefs.blacklist \/ s >= StartupThreshold
                 THEN <<Suggestion(e.name, "Startup App", s, "disable", "disable", TRUE)>>
                 ELSE <<Suggestion(e.name, "Startup App", s, "optional", "none", TRUE)>>
        ELSE LET s == IF e.name \in prefs.whitelist THEN 0 ELSE NotRunningScore
             IN  <<Suggestion(e.name, "Startup App", s, "can_disable", "disable", FALSE)>>

\* the body of the service loop for one service
ServiceSuggestion(svc, proc_map, ctx, prefs) ==
    IF svc.name \in prefs.whitelist THEN <<>>
    ELSE
    LET suspicious == IsIn(<<"unknown">>, Lower(svc.name))
                      \/ IsIn(<<"temp">>, Lower(svc.binpath))
        k == FirstMatch(proc_map, LAMBDA info : ServiceMatches(svc.binpath, info))
    IN  IF k # 0
        THEN LET info == proc_map[k].info
                 s0 == score_item(info[2], info[3], info[5], info[6], FALSE, suspicious)
                 s == IF ctx.fullscreen /\ s0 < FullscreenLimit
                      THEN s0 - FullscreenPenalty ELSE s0
             IN  IF svc.name \in prefs.blacklist \/ s >= ServiceThreshold
                 THEN <<Suggestion(svc.name, "Service", s, "stop", "stop", TRUE)>>
                 ELSE <<Suggestion(svc.name, "Service", s, "leave", "none", TRUE)>>
        ELSE <<Suggestion(svc.name, "Service", 0, "optional_services", "none", FALSE)>>

\* the startup loop without its whitelist test
RECURSIVE StartupLoopNoSkip(_, _, _, _, _)
StartupLoopNoSkip(i, entries, proc_map, ctx, prefs) ==
    IF i > Len(entries) THEN <<>>
    ELSE StartupSuggestion(entries[i], proc_map, ctx, [prefs EXCEPT !.whitelist = {}])
         \o StartupLoopNoSkip(i + 1, entries, proc_map, ctx, prefs)

RECURSIVE StartupLoop(_, _, _, _, _)
StartupLoop(i, entries, proc_map, ctx, prefs) ==
    IF i > Len(entries) THEN <<>>
    ELSE StartupSuggestion(entries[i], proc_map, ctx, prefs)
         \o StartupLoop(i + 1, entries, proc_map, ctx, prefs)
RECURSIVE ServiceLoop(_, _, _, _, _)
ServiceLoop(i, services, proc_map, ctx, prefs) ==
    IF i > Len(services) THEN <<>>
    ELSE ServiceSuggestion(services[i], proc_map, ctx, prefs)
         \o ServiceLoop(i + 1, services, proc_map, ctx, prefs)

\* list.sort(key = score, reverse = True): stable, highest score first
RECURSIVE InsertByScore(_, _)
InsertByScore(x, sorted) ==
    IF sorted = <<>> THEN <<x>>
    ELSE IF Head(sorted).score >= x.score
         THEN <<Head(sorted)>> \o InsertByScore(x, Tail(sorted))
         ELSE <<x>> \o sorted
RECURSIVE SortByScore(_)
SortByScore(seq) ==
    IF seq = <<>> THEN <<>>
    ELSE InsertByScore(seq[Len(seq)], SortByScore(SubSeq(seq, 1, Len(seq) - 1)))

SystemOk == Suggestion(<<>>, "Info", 0, "system_ok", "none", FALSE)

scan_for_suggestions(entries, services, proc_map, ctx, prefs) ==
    LET found == SortByScore(StartupLoop(1, entries, proc_map, ctx, prefs)
                             \o ServiceLoop(1, services, proc_map, ctx, prefs))
    IN  IF found = <<>> THEN <<SystemOk>> ELSE found

-----------------------------------------------------------------------------
(* PerformanceMonitorGUI._gather_proc_scores *)

\* the largest value of an I/O counter, in MiB and in operations
MaxCount == 1

Pids == {1, 2}
\* psutil.process_iter yields the processes by pid
PidList == <<1, 2>>
NoPrev == <<>>
\* io is not bound before the first io_counters() that returns
NoIo == [bound |-> FALSE, read_bytes |-> 0, write_bytes |-> 0, other_count |-> 0,
         read_count |-> 0]

is_system_process_name(name) ==
    \/ name = <<>>
    \/ IsIn(<<"idle">>, Lower(name))
    \/ Lower(name) \in {<<"system">>, <<"system idle process">>, <<"ntoskrnl", ".exe">>}

MaxOf(a, b) == IF a > b THEN a ELSE b
\* dict.get(pid, (0, 0))
PrevOf(cache, pid) == IF cache[pid] = NoPrev THEN <<0, 0>> ELSE cache[pid]

\* the body of the loop for one process p of the table
GatherOne(st, p) ==
    IF is_system_process_name(p.name) THEN st
    ELSE
    LET io == IF p.readable
              THEN [bound |-> TRUE, read_bytes |-> p.read_bytes, write_bytes |-> p.write_bytes,
                    other_count |-> p.other_count, read_count |-> p.read_count]
              ELSE st.io                                   \* io_counters() raised
        read_b == IF p.readable THEN io.read_bytes ELSE 0
        write_b == IF p.readable THEN io.write_bytes ELSE 0
        prev == PrevOf(st.prev_disk, p.pid)
        disk_bytes_delta == MaxOf(0, read_b - prev[1]) + MaxOf(0, write_b - prev[2])
        pnet == PrevOf(st.prev_net, p.pid)
        net_ops == IF io.bound
                   THEN MaxOf(0, (io.other_count - pnet[1]) + (io.read_count - pnet[2]))
                   ELSE 0                                  \* NameError: net_ops = 0
    IN  [io |-> io,
         prev_disk |-> [st.prev_disk EXCEPT ![p.pid] = <<read_b, write_b>>],
         prev_net |-> IF io.bound
                      THEN [st.prev_net EXCEPT ![p.pid] = <<io.other_count, io.read_count>>]
                      ELSE st.prev_net,
         proc_map |-> Append(st.proc_map,
                             [pid |-> p.pid,
                              info |-> ProcInfo(p.name, p.cpu, p.mem, disk_bytes_delta, net_ops)])]

RECURSIVE GatherFrom(_, _, _)
GatherFrom(i, table, st) ==
    IF i > Len(table) THEN st
    ELSE GatherFrom(i + 1, table, GatherOne(st, table[i]))

\* _gather_proc_scores on the process table the OS shows
gather_proc_scores(table) ==
    GatherFrom(1, table, [io |-> NoIo, prev_disk |-> prev_disk, prev_net |-> prev_net,
                          proc_map |-> <<>>])

-----------------------------------------------------------------------------
(* AISuggestionsEngine: history, trends *)

\* deque(maxlen=12), scaled
TrendMaxLen == 2
\* the 5000 records kept of one pid, scaled
TrendCap == 3
\* the number of full scans started in one run of the program
MaxScans == 2

Workers == {1, 2}
\* the rss of a process; 0 also when memory_info() raised
RssLevels == {0, 1}

NoTrends == [pid \in Pids |-> <<>>]
\* {"ignored": [], "killed": [], "seen": {}, "trends": {}}
DefaultHistory == [dict |-> TRUE, trends |-> NoTrends]
\* a JSON document that is not an object, such as []
NotADict == [dict |-> FALSE, trends |-> NoTrends]

NoHistoryFile == [state |-> "missing", doc |-> DefaultHistory]
InvalidHistoryFile == [state |-> "invalid", doc |-> DefaultHistory]
HistoryFileOf(doc) == [state |-> "json", doc |-> doc]

\* _load_history
load_history(file) ==
    IF file.state = "missing" THEN DefaultHistory
    ELSE IF file.state = "invalid" THEN DefaultHistory        \* except Exception
    ELSE file.doc

\* deque.append with maxlen
AppendBounded(dq, x) ==
    LET s == Append(dq, x)
    IN  IF Len(s) > TrendMaxLen THEN Tail(s) ELSE s

\* the loop body of predictive_suggestions for the processes of procs, at now
RECURSIVE PredictiveFrom(_, _, _, _)
PredictiveFrom(i, procs, tr, now) ==
    IF i > Len(procs) THEN tr
    ELSE PredictiveFrom(i + 1, procs,
                        [tr EXCEPT ![procs[i].pid] = AppendBounded(@, <<now, procs[i].rss>>)],
                        now)

\* the trim keeping the oldest records: recs[:5000]
FlushPidKeepOldest(recs, dq) ==
    LET all == recs \o dq
    IN  IF Len(all) > TrendCap THEN SubSeq(all, 1, TrendCap) ELSE all

\* recs.append for every sample of dq, then the trim
FlushPid(recs, dq) ==
    LET all == recs \o dq
    IN  IF Len(all) > TrendCap
        THEN SubSeq(all, Len(all) - TrendCap + 1, Len(all))
        ELSE all

\* _flush_trends_to_history on a history that is a dict
flush_trends_to_history(hist, tr) ==
    [hist EXCEPT !.trends = [pid \in Pids |->
        IF tr[pid] = <<>> THEN hist.trends[pid] ELSE FlushPid(hist.trends[pid], tr[pid])]]

\* the steps run_all_checks gives to timed_step, in order
CheckSteps == <<"security", "bottleneck", "predictive", "power", "maintenance",
                "summary", "scoring">>
StepIndex(step) == CHOOSE i \in 1..Len(CheckSteps) : CheckSteps[i] = step
AfterStep(step) ==
    IF StepIndex(step) = Len(CheckSteps) THEN "flush" ELSE CheckSteps[StepIndex(step) + 1]

IdleWorker == [pc |-> "idle", results |-> <<>>, raised |-> {},
               flushed |-> FALSE, saved |-> FALSE, end |-> "none"]

\* PerformanceMonitorGUI.__init__: self.sugg_ai = AISuggestionsEngine()
AiStart(file) ==
    /\ ai_file = file
    /\ ai_history = load_history(file)
    /\ ai_trends = NoTrends
    /\ ai_lock = 0
    /\ ai_worker = [w \in Workers |-> IdleWorker]
    /\ ai_clock = 0
    /\ ai_appended = load_history(file).trends
    /\ gui_pc = "idle"

-----------------------------------------------------------------------------
(* Initial states: a machine on which the identity is registered somewhere *)

\* where the identity is registered: HKCU value, HKLM value, the two shortcuts
InitShapes ==
    {<<Val2, NoVal, NoFile, NoFile>>, <<NoVal, NoVal, "L1", "L2">>}
\* the view the process reads by default, whether OpenKey resolves a subkey path
\* written with doubled backslashes, the views without a StartupApproved key
Platforms ==
    {[native |-> "v64", dblSlash |-> TRUE, missing |-> {}],
     [native |-> "v64", dblSlash |-> TRUE, missing |-> {"v32"}],
     [native |-> "v64", dblSlash |-> TRUE, missing |-> {"v64", "v32"}],
     [native |-> "v32", dblSlash |-> FALSE, missing |-> {}]}

NoOp ==
    [op |-> "none", hive |-> None, path |-> None, name |-> <<>>, cmd |-> None,
     status |-> "", end |-> "returned", ok |-> TRUE, warned |-> FALSE,
     failed |-> {}, log |-> {}, errlog |-> {}, wrote |-> {}, pre |-> NoSnapshot,
     prev |-> NoSummary]

NoScan == [kind |-> "none"]

InitMachine(sh) ==
    /\ reg = [h \in Hives |-> [key \in ValueKeys |-> [n \in Names |->
                IF key = RunPath THEN (IF h = HKCU THEN sh[1] ELSE sh[2]) ELSE NoVal]]]
    /\ lnk = [f \in Folders |-> [b \in FileBases |->
                IF f = StartupPaths[1] THEN sh[3] ELSE sh[4]]]
    /\ approved = [aid \in ApprIds |-> [v \in Views |-> [n \in Names |-> NoFlag]]]
    /\ lnk_disabled = [f \in Folders |-> [b \in FileBases |-> NoFile]]
    /\ table_startup = <<>>
    /\ lastOp = NoOp
    /\ prev_disk = [pid \in Pids |-> NoPrev]
    /\ prev_net = [pid \in Pids |-> NoPrev]
    /\ gui_proc_map = <<>>
    /\ os_seen = <<>>

InitStores(sh) ==
    /\ InitMachine(sh)
    /\ AiStart(NoHistoryFile)

Init ==
    /\ \E sh \in InitShapes : InitStores(sh)
    /\ platform \in Platforms
    /\ user_prefs = [whitelist |-> {}, blacklist |-> {}]
    /\ scan_in = NoScan
    /\ suggestions = <<>>

-----------------------------------------------------------------------------
(* Actions *)

\* the "Refresh Startup Entries" button
Refresh ==
    /\ \E denied \in BOOLEAN :
          table_startup' = UpdateStartupTab(reg, approved, lnk, lnk_disabled, denied)
    /\ UNCHANGED <<reg, approved, lnk, lnk_disabled, platform, lastOp, scanVars, samplerVars, aiVars>>

\* Manage > Disable on a row
DisableUi ==
    \E i \in 1..Len(table_startup) :
        LET row == table_startup[i]
            Run(flt) == DisableStartupEntry(Start, flt, row.hive, row.path, row.name)
        IN  \E flt \in FaultsOf(Run) :
                Commit(Run(flt), Outcome(Run(flt), "disable", RowEntry(row), row.status),
                       Run(flt).mode = "run", FALSE)

\* Manage > Enable on a row
EnableUi ==
    \E i \in 1..Len(table_startup) :
        LET row == table_startup[i]
            Run(flt) == EnableStartupEntry(Start, flt, row.hive, row.path, row.name, row.cmd)
        IN  \E flt \in FaultsOf(Run) :
                Commit(Run(flt), Outcome(Run(flt), "enable", RowEntry(row), row.status),
                       Run(flt).mode = "run", FALSE)

\* Manage > Delete Entry on a row; the table is refreshed whatever happened
DeleteUi ==
    \E i \in 1..Len(table_startup) :
        LET row == table_startup[i]
            Run(flt) == DeleteStartupEntryUi(Start, flt, row.hive, row.path, row.name)
        IN  \E flt \in FaultsOf(Run) :
                Commit(Run(flt), Outcome(Run(flt), "delete", RowEntry(row), row.status),
                       TRUE, FALSE)

\* Execute on a "Startup App" suggestion of a fresh scan
SuggestionDisable ==
    \E i \in 1..Len(ListRegistryStartup(reg)) :
        LET e == ListRegistryStartup(reg)[i]
            Run(flt) == SuggestionDisableEntry(Start, flt, e.hive, e.path, e.name)
        IN  \E flt \in FaultsOf(Run) :
                Commit(Run(flt), Outcome(Run(flt), "suggestion_disable", e, ""), FALSE, FALSE)

\* set_startup_status on a row
SetStatus ==
    \E i \in 1..Len(table_startup), enabled \in BOOLEAN, withCmd \in BOOLEAN :
        LET row == table_startup[i]
            cmd == IF withCmd THEN row.cmd ELSE None
            Run(flt) == SetStartupStatus(Start, flt, row.hive, row.path, row.name, enabled, cmd)
        IN  \E flt \in FaultsOf(Run) :
                Commit(Run(flt),
                       Outcome(Run(flt), IF enabled THEN "set_enabled" ELSE "set_disabled",
                               RowEntry(row), row.status),
                       FALSE, FALSE)

\* delete_startup_entry on a row
DeleteEntry ==
    \E i \in 1..Len(table_startup) :
        LET row == table_startup[i]
            Run(flt) == DeleteStartupEntry(Start, flt, row.hive, row.path, row.name)
        IN  \E flt \in FaultsOf(Run) :
                Commit(Run(flt), Outcome(Run(flt), "delete_entry", RowEntry(row), row.status),
                       FALSE, FALSE)

\* what the window offers
Next ==
    \/ Refresh
    \/ DisableUi
    \/ EnableUi
    \/ DeleteUi
    \/ SuggestionDisable

Spec == Init /\ [][Next]_vars

\* the window's operations and the two public methods nothing in the window calls
NextApi ==
    \/ Next
    \/ SetStatus
    \/ DeleteEntry

SpecApi == Init /\ [][NextApi]_vars

\* _disable_startup_entry_ui called again with the arguments of its last call
DisableCall ==
    /\ lastOp.op = "disable" /\ lastOp.end = "returned"
    /\ LET e == Entry(lastOp.hive, lastOp.path, lastOp.name, lastOp.cmd)
           Run(flt) == DisableStartupEntry(Start, flt, e.hive, e.path, e.name)
       IN  \E flt \in FaultsOf(Run) :
               Commit(Run(flt), Outcome(Run(flt), "disable", e, StatusOf(e, approved, FALSE)),
                      Run(flt).mode = "run", FALSE)

\* _enable_startup_entry_ui called with the arguments of the last Disable
EnableCall ==
    /\ lastOp.op = "disable" /\ lastOp.end = "returned"
    /\ LET e == Entry(lastOp.hive, lastOp.path, lastOp.name, lastOp.cmd)
           Run(flt) == EnableStartupEntry(Start, flt, e.hive, e.path, e.name, e.cmd)
       IN  \E flt \in FaultsOf(Run) :
               Commit(Run(flt), Outcome(Run(flt), "enable", e, StatusOf(e, approved, FALSE)),
                      Run(flt).mode = "run", FALSE)

\* Disable and Enable from the window, and called back to back
NextCalls ==
    \/ Refresh
    \/ DisableUi
    \/ EnableUi
    \/ DisableCall
    \/ EnableCall

SpecCalls == Init /\ [][NextCalls]_vars


-----------------------------------------------------------------------------
(* One scan of the suggestion engine on one snapshot of the machine *)

\* the largest cpu_percent of a process, in percent
MaxCpu == 50

Updater == <<"Update", "r">>
App == <<"App">>
ScanNames == {Updater, App}
ScanCmds == {<<"C:\\", "app", ".exe">>, <<"C:\\", "Microsoft", "app", ".exe">>}
ScanEntries == {Entry(HKCU, RunPath, n, c) : n \in ScanNames, c \in ScanCmds}
ScanServices ==
    {[name |-> <<"svc">>, binpath |-> <<"C:\\", "svc", ".exe">>],
     [name |-> <<"Unknown", "svc">>, binpath |-> <<"C:\\", "Temp", "svc", ".exe">>]}
ProcNames == {<<"app", ".exe">>, <<"svc", ".exe">>, <<"Update", "r", ".exe">>}
CpuLevels == {0, 125, MaxCpu * 10}
MemLevels == {0, 400}
NetLevels == {0, 200}
\* the bytes read and written since the last sample, in MiB
DiskLevels == {0, 50}
ProcInfos ==
    {ProcInfo(n, c, mm, d, o) : n \in ProcNames, c \in CpuLevels, mm \in MemLevels,
                                d \in DiskLevels, o \in NetLevels}
ProcMaps == {<<>>} \cup {<<[pid |-> 1, info |-> i]>> : i \in ProcInfos}
Batteries == {NoBattery, [present |-> TRUE, percent |-> 10],
              [present |-> TRUE, percent |-> 80]}
DiskPcts == {50, 95}
\* the lists user_prefs.json can hold
PrefsFiles ==
    {[whitelist |-> {}, blacklist |-> {}],
     [whitelist |-> {App, <<"svc">>}, blacklist |-> {App}],
     [whitelist |-> {}, blacklist |-> {App, <<"svc">>}]}

ScanInputs ==
    [kind : {"pending"},
     entries : {<<>>} \cup {<<e>> : e \in ScanEntries},
     services : {<<>>} \cup {<<v>> : v \in ScanServices},
     proc_map : ProcMaps,
     battery : Batteries, disk_pct : DiskPcts, probe : BOOLEAN, raised : BOOLEAN]

InitScore ==
    /\ InitStores(<<Val2, NoVal, NoFile, NoFile>>)
    /\ platform = [native |-> "v64", dblSlash |-> TRUE, missing |-> {}]
    /\ user_prefs \in PrefsFiles
    /\ scan_in \in ScanInputs
    /\ suggestions = <<>>

\* _refresh_suggestions: one call of scan_for_suggestions
Scan ==
    /\ scan_in.kind = "pending"
    /\ suggestions' =
           scan_for_suggestions(scan_in.entries, scan_in.services, scan_in.proc_map,
                                Context(scan_in.battery, scan_in.disk_pct,
                                        scan_in.probe, scan_in.raised),
                                user_prefs)
    /\ scan_in' = [scan_in EXCEPT !.kind = "done"]
    /\ UNCHANGED <<lifecycleVars, user_prefs, samplerVars, aiVars>>

NextScore == Scan

SpecScore == InitScore /\ [][NextScore]_vars

-----------------------------------------------------------------------------
(* One scan of an updater started from a Temp directory *)

TempCmd == <<"C:\\", "Temp", "upd", ".exe">>
\* the process of the updater: 1.0 % cpu, 0.3 % memory, no disk or net activity
QuietProcs ==
    {ProcInfo(n, 10, 3, 0, 0) : n \in {<<"upd", ".exe">>, <<"Update", "r", ".exe">>}}

UpdaterInputs ==
    [kind : {"pending"},
     entries : {<<Entry(HKCU, RunPath, Updater, TempCmd)>>},
     services : {<<>>},
     proc_map : {<<[pid |-> 1, info |-> i]>> : i \in QuietProcs},
     battery : Batteries, disk_pct : DiskPcts, probe : BOOLEAN, raised : BOOLEAN]

InitUpdater ==
    /\ InitStores(<<Val2, NoVal, NoFile, NoFile>>)
    /\ platform = [native |-> "v64", dblSlash |-> TRUE, missing |-> {}]
    /\ user_prefs \in PrefsFiles \cup {[whitelist |-> {}, blacklist |-> {Updater}]}
    /\ scan_in \in UpdaterInputs
    /\ suggestions = <<>>

SpecUpdater == InitUpdater /\ [][NextScore]_vars

-----------------------------------------------------------------------------
(* The dashboard timer: one _gather_proc_scores per tick *)

SampleNames == <<<<"app", ".exe">>, <<"svc", ".exe">>>>
\* what the OS shows of one pid: a running process with its counters, one whose
\* io_counters() is denied, or a system process
ProcessesOf(pid) ==
    {[pid |-> pid, name |-> SampleNames[pid], cpu |-> 0, mem |-> 0, readable |-> TRUE,
      read_bytes |-> r, write_bytes |-> w, other_count |-> o, read_count |-> c] :
        r \in 0..MaxCount, w \in {0, MaxCount}, o \in {0, MaxCount}, c \in {0}}
    \cup {[pid |-> pid, name |-> n, cpu |-> 0, mem |-> 0, readable |-> FALSE,
           read_bytes |-> 0, write_bytes |-> 0, other_count |-> 0, read_count |-> 0] :
             n \in {SampleNames[pid], <<"System">>}}
ProcessTables ==
    {<<>>} \cup {<<p>> : p \in ProcessesOf(1) \cup ProcessesOf(2)}
           \cup {<<p, q>> : p \in ProcessesOf(1), q \in ProcessesOf(2)}

InitSampler ==
    /\ InitStores(<<Val2, NoVal, NoFile, NoFile>>)
    /\ platform = [native |-> "v64", dblSlash |-> TRUE, missing |-> {}]
    /\ user_prefs = [whitelist |-> {}, blacklist |-> {}]
    /\ scan_in = NoScan
    /\ suggestions = <<>>

\* _refresh_dashboard: self.proc_map = the proc_map of _gather_proc_scores
Sample ==
    \E table \in ProcessTables :
        LET st == gather_proc_scores(table)
        IN  /\ prev_disk' = st.prev_disk
            /\ prev_net' = st.prev_net
            /\ gui_proc_map' = st.proc_map
            /\ os_seen' = table
            /\ UNCHANGED <<lifecycleVars, scanVars, aiVars>>

NextSampler == Sample

SpecSampler == InitSampler /\ [][NextSampler]_vars

-----------------------------------------------------------------------------
(* One refresh of the Startup tab on a machine as it is found *)

\* a Run value that starts the shortcut of the user's Startup folder
ValLink == [data |-> ShortcutPath(StartupPaths[1], NameA, FALSE), type |-> "REG_SZ"]

InitEnum ==
    /\ \E cu \in {NoVal, Val2, ValLink}, cud \in {NoVal, Val2}, lm \in {NoVal, Val2} :
          reg = [h \in Hives |-> [key \in ValueKeys |-> [n \in Names |->
                    IF h = HKCU THEN (IF key = RunPath THEN cu ELSE cud)
                    ELSE (IF key = RunPath THEN lm ELSE NoVal)]]]
    /\ lnk \in [Folders -> [FileBases -> {NoFile, "L1"}]]
    /\ lnk_disabled \in [Folders -> [FileBases -> {NoFile, "L1"}]]
    /\ \E flag \in {NoFlag, ApprovalData("disable")} :
          approved = [aid \in ApprIds |-> [v \in Views |-> [n \in Names |->
                         IF aid = <<HKCU, ApprovedRunPath>> THEN flag ELSE NoFlag]]]
    /\ platform \in Platforms
    /\ table_startup = <<>>
    /\ lastOp = NoOp
    /\ prev_disk = [pid \in Pids |-> NoPrev]
    /\ prev_net = [pid \in Pids |-> NoPrev]
    /\ gui_proc_map = <<>>
    /\ os_seen = <<>>
    /\ AiStart(NoHistoryFile)
    /\ user_prefs = [whitelist |-> {}, blacklist |-> {}]
    /\ scan_in = NoScan
    /\ suggestions = <<>>

NextEnum == Refresh

SpecEnum == InitEnum /\ [][NextEnum]_vars

-----------------------------------------------------------------------------
(* The window on a machine whose Run value has no command *)

InitBlank ==
    /\ InitStores(<<ValEmpty, NoVal, NoFile, NoFile>>)
    /\ platform \in Platforms
    /\ user_prefs = [whitelist |-> {}, blacklist |-> {}]
    /\ scan_in = NoScan
    /\ suggestions = <<>>

SpecBlank == InitBlank /\ [][Next]_vars

-----------------------------------------------------------------------------
(* The window on a machine with shortcuts and disabled shortcuts *)

\* no Run value; a value of the same name was moved to RunDisabled earlier
InitFolders ==
    /\ reg = [h \in Hives |-> [key \in ValueKeys |-> [n \in Names |->
                IF h = HKCU /\ key = RunDisabledPath THEN Val2 ELSE NoVal]]]
    /\ \E live \in {NoFile, "L1"} :
          lnk = [f \in Folders |-> [b \in FileBases |->
                    IF f = StartupPaths[1] THEN live ELSE NoFile]]
    /\ lnk_disabled \in [Folders -> [FileBases -> {NoFile, "L2"}]]
    /\ approved = [aid \in ApprIds |-> [v \in Views |-> [n \in Names |-> NoFlag]]]
    /\ platform = [native |-> "v64", dblSlash |-> TRUE, missing |-> {}]
    /\ table_startup = <<>>
    /\ lastOp = NoOp
    /\ prev_disk = [pid \in Pids |-> NoPrev]
    /\ prev_net = [pid \in Pids |-> NoPrev]
    /\ gui_proc_map = <<>>
    /\ os_seen = <<>>
    /\ AiStart(NoHistoryFile)
    /\ user_prefs = [whitelist |-> {}, blacklist |-> {}]
    /\ scan_in = NoScan
    /\ suggestions = <<>>

\* the Manage menu of a row, and the refresh button
NextWindow ==
    \/ Refresh
    \/ DisableUi
    \/ EnableUi
    \/ DeleteUi

SpecFolders == InitFolders /\ [][NextWindow]_vars

-----------------------------------------------------------------------------
(* SuggestionEngine.__init__ on the user_prefs.json it finds, then one scan *)

\* a JSON document: is it an object, are its "whitelist" and "blacklist" lists
\* of strings where it has them, and the names in these lists
PrefsDoc(object, lists, wl, bl) ==
    [object |-> object, lists |-> lists, whitelist |-> wl, blacklist |-> bl]
\* {"whitelist": [], "blacklist": []}
EmptyPrefs == PrefsDoc(TRUE, TRUE, {}, {})
\* [] ; {} ; {"whitelist": 5, "blacklist": []}
MalformedDocs == {PrefsDoc(FALSE, FALSE, {}, {}), PrefsDoc(TRUE, TRUE, {}, {}),
                  PrefsDoc(TRUE, FALSE, {}, {})}
PrefsOnDisk ==
    {[state |-> "missing", doc |-> EmptyPrefs], [state |-> "invalid", doc |-> EmptyPrefs]}
    \cup {[state |-> "json", doc |-> d] : d \in MalformedDocs}
    \cup {[state |-> "json", doc |-> PrefsDoc(TRUE, TRUE, f.whitelist, f.blacklist)] :
             f \in PrefsFiles \ {[whitelist |-> {}, blacklist |-> {}]}}

\* the file has a whitelist list and a blacklist list
WellFormed(file) ==
    file.state = "json" /\ file.doc.object /\ file.doc.lists /\ file.doc \notin MalformedDocs

\* __init__: os.path.exists, json.load, except Exception
load_prefs(file) ==
    IF file.state = "json" THEN file.doc ELSE EmptyPrefs

PrefsScanInputs ==
    [kind : {"pending"},
     file : PrefsOnDisk,
     entries : {<<>>} \cup {<<e>> : e \in ScanEntries},
     services : {<<>>} \cup {<<v>> : v \in ScanServices},
     proc_map : {<<>>},
     battery : {NoBattery}, disk_pct : {DefaultDiskPct}, probe : {FALSE}, raised : {FALSE}]

InitPrefs ==
    /\ InitStores(<<Val2, NoVal, NoFile, NoFile>>)
    /\ platform = [native |-> "v64", dblSlash |-> TRUE, missing |-> {}]
    /\ scan_in \in PrefsScanInputs
    /\ user_prefs = load_prefs(scan_in.file)
    /\ suggestions = <<>>

\* _refresh_suggestions with the preferences as loaded: user_prefs.get raises
\* on what is not a dict, set() on what is not iterable
ScanLoaded ==
    /\ scan_in.kind = "pending"
    /\ IF user_prefs.object /\ user_prefs.lists
       THEN /\ suggestions' =
                   scan_for_suggestions(scan_in.entries, scan_in.services, scan_in.proc_map,
                                        Context(scan_in.battery, scan_in.disk_pct,
                                                scan_in.probe, scan_in.raised),
                                        user_prefs)
            /\ scan_in' = [scan_in EXCEPT !.kind = "done"]
       ELSE /\ scan_in' = [scan_in EXCEPT !.kind = "raised"]
            /\ UNCHANGED suggestions
    /\ UNCHANGED <<lifecycleVars, user_prefs, samplerVars, aiVars>>

NextPrefs == ScanLoaded

SpecPrefs == InitPrefs /\ [][NextPrefs]_vars

-----------------------------------------------------------------------------
(* The AI button and the Refresh Suggestions button: threads *)

\* what psutil.process_iter yields to predictive_suggestions before it ends
AiTables ==
    {<<>>} \cup {<<[pid |-> 1, rss |-> r]>> : r \in RssLevels}
           \cup {<<[pid |-> 2, rss |-> 1]>>, <<[pid |-> 1, rss |-> 1], [pid |-> 2, rss |-> 1]>>}

\* a history file left by an earlier run
EarlierHistory ==
    [dict |-> TRUE, trends |-> [pid \in Pids |-> IF pid = 1 THEN <<<<0, 1>>, <<0, 1>>>> ELSE <<>>]]
HistoryFiles ==
    {NoHistoryFile, InvalidHistoryFile, HistoryFileOf(EarlierHistory), HistoryFileOf(NotADict)}

\* the scan the Refresh Suggestions button runs here: nothing registered
QuietScan ==
    [kind |-> "pending", entries |-> <<>>, services |-> <<>>, proc_map |-> <<>>,
     battery |-> NoBattery, disk_pct |-> DefaultDiskPct, probe |-> FALSE, raised |-> FALSE]

InitAi ==
    /\ InitMachine(<<Val2, NoVal, NoFile, NoFile>>)
    /\ platform = [native |-> "v64", dblSlash |-> TRUE, missing |-> {}]
    /\ user_prefs = [whitelist |-> {}, blacklist |-> {}]
    /\ scan_in = QuietScan
    /\ suggestions = <<>>
    /\ \E file \in HistoryFiles : AiStart(file)

Running(w) == ai_worker[w].pc # "idle"

\* _on_ai_suggestions_clicked: threading.Thread(target=worker).start()
AiClicked(w) ==
    /\ ~Running(w)
    /\ ai_clock + Cardinality({v \in Workers : Running(v)}) < MaxScans
    /\ ai_worker' = [ai_worker EXCEPT ![w] = [IdleWorker EXCEPT !.pc = "started"]]
    /\ UNCHANGED <<lifecycleVars, scanVars, samplerVars, ai_file, ai_history, ai_trends,
                   ai_lock, ai_clock, ai_appended, gui_pc>>

\* run_all_checks: with self._lock
AiAcquire(w) ==
    /\ ai_worker[w].pc = "started"
    /\ ai_lock = 0
    /\ ai_lock' = w
    /\ ai_worker' = [ai_worker EXCEPT ![w].pc = CheckSteps[1]]
    /\ UNCHANGED <<lifecycleVars, scanVars, samplerVars, ai_file, ai_history, ai_trends,
                   ai_clock, ai_appended, gui_pc>>

\* what timed_step makes of one step: out is "raised", "none" or "one"
Stepped(wk, step, out) ==
    [wk EXCEPT !.pc = AfterStep(step),
               !.raised = IF out = "raised" THEN @ \cup {step} ELSE @,
               !.results = IF out = "one" THEN Append(@, step) ELSE @]

\* what a step can come to on this machine: a process runs from a Temp
\* directory, no memory grows, the battery is not low, the disk is not full;
\* process_iter may raise
OutcomesOf(step) ==
    CASE step = "security" -> {"raised", "one"}
      [] step = "bottleneck" -> {"one"}
      [] step = "predictive" -> {"raised", "none"}
      [] OTHER -> {"none"}

\* results.extend(timed_step(...)) of a step that keeps no state
AiCheck(w) ==
    /\ ai_worker[w].pc \in {"security", "bottleneck", "power", "maintenance", "summary"}
    /\ \E out \in OutcomesOf(ai_worker[w].pc) :
          ai_worker' = [ai_worker EXCEPT ![w] = Stepped(@, @.pc, out)]
    /\ UNCHANGED <<lifecycleVars, scanVars, samplerVars, ai_file, ai_history, ai_trends,
                   ai_lock, ai_clock, ai_appended, gui_pc>>

\* results.extend(timed_step("Predictive Suggestions", ...))
AiPredictive(w) ==
    /\ ai_worker[w].pc = "predictive"
    /\ \E procs \in AiTables, out \in OutcomesOf("predictive") :
          /\ ai_trends' = PredictiveFrom(1, procs, ai_trends, ai_clock + 1)
          /\ ai_worker' = [ai_worker EXCEPT ![w] = Stepped(@, "predictive", out)]
    /\ ai_clock' = ai_clock + 1
    /\ UNCHANGED <<lifecycleVars, scanVars, samplerVars, ai_file, ai_history, ai_lock,
                   ai_appended, gui_pc>>

\* results = timed_step("User-Friendly Scoring", ...)
AiScoring(w) ==
    /\ ai_worker[w].pc = "scoring"
    /\ ai_worker' = [ai_worker EXCEPT ![w] =
           IF ~ai_history.dict /\ @.results # <<>>           \* self.history.get raises
           THEN [Stepped(@, "scoring", "raised") EXCEPT !.results = <<>>]
           ELSE Stepped(@, "scoring", "none")]
    /\ UNCHANGED <<lifecycleVars, scanVars, samplerVars, ai_file, ai_history, ai_trends,
                   ai_lock, ai_clock, ai_appended, gui_pc>>

\* self._flush_trends_to_history(); when it raises the with block is left, and
\* the worker catches the exception
AiFlush(w) ==
    /\ ai_worker[w].pc = "flush"
    /\ IF ~ai_history.dict /\ ai_trends # NoTrends          \* self.history.setdefault raises
       THEN /\ ai_lock' = 0
            /\ ai_worker' = [ai_worker EXCEPT ![w].pc = "idle", ![w].end = "raised",
                                              ![w].results = <<>>]
            /\ UNCHANGED <<ai_history, ai_appended>>
       ELSE /\ ai_history' = IF ai_history.dict
                             THEN flush_trends_to_history(ai_history, ai_trends)
                             ELSE ai_history
            /\ ai_appended' = [pid \in Pids |-> ai_appended[pid] \o ai_trends[pid]]
            /\ ai_worker' = [ai_worker EXCEPT ![w].pc = "save", ![w].flushed = TRUE]
            /\ UNCHANGED ai_lock
    /\ UNCHANGED <<lifecycleVars, scanVars, samplerVars, ai_file, ai_trends, ai_clock, gui_pc>>

\* self._save_history(): open(..., "w") truncates, json.dump writes; errors pass
AiSave(w) ==
    /\ ai_worker[w].pc = "save"
    /\ \E io \in {"ok", "open_failed", "dump_failed"} :
          ai_file' = CASE io = "ok" -> HistoryFileOf(ai_history)
                       [] io = "open_failed" -> ai_file
                       [] OTHER -> InvalidHistoryFile
    /\ ai_worker' = [ai_worker EXCEPT ![w].pc = "return", ![w].saved = TRUE]
    /\ UNCHANGED <<lifecycleVars, scanVars, samplerVars, ai_history, ai_trends, ai_lock,
                   ai_clock, ai_appended, gui_pc>>

\* return results: the with block is left
AiReturn(w) ==
    /\ ai_worker[w].pc = "return"
    /\ ai_lock' = 0
    /\ ai_worker' = [ai_worker EXCEPT ![w].pc = "idle", ![w].end = "returned"]
    /\ UNCHANGED <<lifecycleVars, scanVars, samplerVars, ai_file, ai_history, ai_trends,
                   ai_clock, ai_appended, gui_pc>>

\* _refresh_suggestions on the GUI thread: the call of scan_for_suggestions
RefreshSuggestionsBegin ==
    /\ gui_pc = "idle"
    /\ gui_pc' = "scanning"
    /\ UNCHANGED <<lifecycleVars, scanVars, samplerVars, ai_file, ai_history, ai_trends,
                   ai_lock, ai_worker, ai_clock, ai_appended>>

\* _refresh_suggestions: the scan has returned, the table is filled
RefreshSuggestionsEnd ==
    /\ gui_pc = "scanning"
    /\ gui_pc' = "idle"
    /\ suggestions' =
           scan_for_suggestions(scan_in.entries, scan_in.services, scan_in.proc_map,
                                Context(scan_in.battery, scan_in.disk_pct,
                                        scan_in.probe, scan_in.raised),
                                user_prefs)
    /\ UNCHANGED <<lifecycleVars, user_prefs, scan_in, samplerVars, ai_file, ai_history,
                   ai_trends, ai_lock, ai_worker, ai_clock, ai_appended>>

NextAi ==
    \/ \E w \in Workers :
          \/ AiClicked(w)
          \/ AiAcquire(w)
          \/ AiCheck(w)
          \/ AiPredictive(w)
          \/ AiScoring(w)
          \/ AiFlush(w)
          \/ AiSave(w)
          \/ AiReturn(w)
    \/ RefreshSuggestionsBegin
    \/ RefreshSuggestionsEnd

SpecAi == InitAi /\ [][NextAi]_vars

-----------------------------------------------------------------------------
(* The lifecycle claims: what is read off the stores and off lastOp *)

IsTransition(o) == o.op \in {"disable", "enable", "delete"}
Completed(o) == o.end = "returned"
LastEntry == Entry(lastOp.hive, lastOp.path, lastOp.name, lastOp.cmd)

ApprovalKeyOf(e) ==
    IF Truthy(e.path) THEN <<e.hive, ApprovedPathOf(e.path)>> ELSE <<HKCU, ApprovedFolderPath>>
FlagOf(e, v) == approved[ApprovalKeyOf(e)][v][e.name]
IsDisabledFlag(flag) == flag.len > 0 /\ flag.b0 = DisabledByte
IsEnabledFlag(flag) == flag.len > 0 /\ flag.b0 = EnabledByte

\* the live and the disabled-shadow representations of an entry
LiveOf(e) ==
    IF Truthy(e.path) THEN reg[e.hive][e.path][e.name] # NoVal
    ELSE \E f \in Folders : FileAt(lnk, f, e.name) # NoFile
ShadowOf(e) ==
    IF Truthy(e.path) THEN reg[e.hive][DisabledPathOf(e.path)][e.name] # NoVal
    ELSE \E f \in Folders : FileAt(lnk_disabled, f, e.name) # NoFile
Relocated(e) == ShadowOf(e) /\ ~LiveOf(e)

-----------------------------------------------------------------------------
(* C1 *)

\* C1: after a completed Disable, Enable or Delete the approval flag of the
\* entry reads Disabled exactly when its primary has been relocated to the
\* shadow location, or else the transition reported a failure
C1_FlagMatchesRelocation ==
    (IsTransition(lastOp) /\ Completed(lastOp)) =>
        \/ IsDisabledFlag(FlagOf(LastEntry, platform.native)) <=> Relocated(LastEntry)
        \/ ~Clean(lastOp)

-----------------------------------------------------------------------------
(* C2 *)

\* C2: after completed transitions, failed writes included, nothing has a
\* live and a disabled-shadow representation at the same time
C2_NeverLiveAndShadow ==
    Completed(lastOp) =>
        /\ \A h \in Hives, n \in Names :
              ~(reg[h][RunPath][n] # NoVal /\ reg[h][RunDisabledPath][n] # NoVal)
        /\ \A f \in Folders, b \in FileBases :
              ~(lnk[f][b] # NoFile /\ lnk_disabled[f][b] # NoFile)

-----------------------------------------------------------------------------
(* C3 *)

\* the rows a fresh enumeration shows for an entry
RowsOf(e) ==
    LET t == UpdateStartupTab(reg, approved, lnk, lnk_disabled, FALSE)
    IN  {t[i] : i \in {j \in 1..Len(t) :
                         t[j].hive = e.hive /\ t[j].path = e.path /\ t[j].name = e.name}}
ResolvesTo(e, status) == RowsOf(e) # {} /\ \A r \in RowsOf(e) : r.status = status

\* an Enable that reported nothing, right after a Disable that reported nothing
\* of the same entry, which was shown Enabled and had its primary
RoundTrip ==
    /\ lastOp.op = "enable" /\ Clean(lastOp)
    /\ lastOp.prev.op = "disable" /\ lastOp.prev.clean
    /\ lastOp.prev.status = "Enabled"
    /\ lastOp.prev.pre # NoSnapshot

\* C3: Disable then Enable of an entry in Enabled state leaves it resolved
\* Enabled, its primary (value name, type and data, or shortcut files) as
\* before the Disable, and no shadow copy
C3_RoundTrip ==
    RoundTrip =>
        /\ ResolvesTo(LastEntry, "Enabled")
        /\ Snapshot(lastOp.hive, lastOp.path, lastOp.name) = lastOp.prev.pre
        /\ ~ShadowOf(LastEntry)

-----------------------------------------------------------------------------
(* C4 *)

AlreadyDisabled(e) ==
    ~LiveOf(e) /\ ShadowOf(e) /\ IsDisabledFlag(FlagOf(e, platform.native))

\* C4: a Disable of an entry whose primary is absent, whose shadow copy is
\* present and whose flag reads Disabled succeeds when no OS call fails, and
\* changes nothing but the approval flag, rewritten to the disabled pattern
C4_DisableAgain ==
    [][(/\ lastOp' # lastOp
        /\ lastOp'.op = "disable" /\ Completed(lastOp') /\ lastOp'.failed = {}
        /\ AlreadyDisabled(Entry(lastOp'.hive, lastOp'.path, lastOp'.name, lastOp'.cmd)))
       => (/\ lastOp'.ok /\ ~lastOp'.warned /\ lastOp'.errlog = {}
           /\ reg' = reg /\ lnk' = lnk /\ lnk_disabled' = lnk_disabled
           /\ \A aid \in ApprIds, v \in Views, n \in Names :
                 approved'[aid][v][n] =
                     IF aid = ApprovalKeyOf(LastEntry') /\ n = lastOp'.name /\ KeyExists(aid, v)
                     THEN ApprovalData("disable")
                     ELSE approved[aid][v][n])]_vars

C4_Witness ==
    /\ lastOp.op = "disable" /\ Clean(lastOp) /\ Truthy(lastOp.path)
    /\ lastOp.status = "Disabled" /\ lastOp.pre = NoSnapshot
    /\ AlreadyDisabled(LastEntry)

-----------------------------------------------------------------------------
(* C5 *)

\* C5: after a Delete that reported no failure the entry has no Run value, no
\* RunDisabled value, no approval record in any view, no .lnk and no
\* .lnk.disabled in either startup folder
C5_DeleteRemovesAll ==
    (lastOp.op \in {"delete", "delete_entry"} /\ Clean(lastOp)) =>
        /\ ~LiveOf(LastEntry)
        /\ ~ShadowOf(LastEntry)
        /\ \A v \in Views : FlagOf(LastEntry, v) = NoFlag

-----------------------------------------------------------------------------
(* C6 *)

\* C6: at any point of a Delete, a kill after any step included, no approval
\* record marked enabled is left while the primary is already gone
C6_NoDanglingEnabled ==
    lastOp.op = "delete" =>
        ~(~LiveOf(LastEntry) /\ \E v \in Views : IsEnabledFlag(FlagOf(LastEntry, v)))

-----------------------------------------------------------------------------
(* C7 *)

\* the calls that raised, the read of the value and its backup file aside
FailedWrites(o) == o.failed \ {"query", "backup"}

\* C7: a transition reports failure only if it updated no representation, and
\* one that updated some and failed on another reports success with the
\* failure listed
C7_FailureOnlyIfNothingUpdated ==
    (lastOp.op \in {"disable", "enable", "delete", "suggestion_disable"}
     /\ Completed(lastOp)) =>
        /\ ~lastOp.ok => lastOp.wrote = {}
        /\ (lastOp.wrote # {} /\ FailedWrites(lastOp) # {}) =>
               (lastOp.ok /\ lastOp.errlog # {})

-----------------------------------------------------------------------------
(* C8 *)

\* C8: after a Disable or an Enable every registry view holds the approval
\* pattern, or the log has a failure entry for that view
C8_EveryViewWrittenOrReported ==
    (lastOp.op \in {"disable", "enable"} /\ Completed(lastOp) /\ lastOp.ok) =>
        \A v \in Views :
            \/ FlagOf(LastEntry, v) = ApprovalData(lastOp.op)
            \/ ("approval_" \o v) \in lastOp.errlog

-----------------------------------------------------------------------------
(* C9 *)

\* C9: a Disable that relocated the registry value, wrote the flag in the
\* 64-bit view and failed in the 32-bit view succeeds, reports that view's
\* failure, and the next enumeration resolves the entry to Disabled
C9_PartialViewFailure ==
    (/\ lastOp.op = "disable" /\ Completed(lastOp) /\ Truthy(lastOp.path)
     /\ {"shadow", "primary", "approval_v64"} \subseteq lastOp.wrote
     /\ "appr_v32" \in lastOp.failed) =>
        /\ lastOp.ok
        /\ "approval_v32" \in lastOp.errlog
        /\ ResolvesTo(LastEntry, "Disabled")

-----------------------------------------------------------------------------
(* C10 *)

Scored(i) == suggestions[i].kind \in {"Startup App", "Service"}

\* C10: every score the scan produces for a startup entry or a service, after
\* the battery, disk and fullscreen modifiers, lies in 0..100
C10_ScoresInRange ==
    \A i \in 1..Len(suggestions) :
        Scored(i) => suggestions[i].score >= 0 /\ suggestions[i].score <= 100

-----------------------------------------------------------------------------
(* The scoring claims: what is read off scan_in and suggestions *)

ScanDone == scan_in.kind = "done"

\* the context of the last scan, with the fullscreen answer replaced
ContextWith(fs) ==
    [Context(scan_in.battery, scan_in.disk_pct, scan_in.probe, scan_in.raised)
        EXCEPT !.fullscreen = fs]

\* the last scan again, on another process table and fullscreen answer
ScanWith(pm, fs) ==
    IF pm = scan_in.proc_map
          /\ fs = Context(scan_in.battery, scan_in.disk_pct, scan_in.probe,
                          scan_in.raised).fullscreen
    THEN suggestions
    ELSE scan_for_suggestions(scan_in.entries, scan_in.services, pm, ContextWith(fs),
                              user_prefs)

Range(seq) == {seq[i] : i \in 1..Len(seq)}

\* pm2 is pm with one of cpu, mem, disk delta, net ops of its process larger
RaisedOne(pm, pm2) ==
    /\ Len(pm) = 1 /\ Len(pm2) = 1
    /\ pm[1].pid = pm2[1].pid /\ pm[1].info[1] = pm2[1].info[1]
    /\ \E k \in 2..5 :
          /\ pm2[1].info[k] > pm[1].info[k]
          /\ \A j \in (2..5) \ {k} : pm2[1].info[j] = pm[1].info[j]

\* C11: with everything else fixed, a larger cpu, mem, disk delta or net ops of
\* the matched process never gives an entity a smaller final score, with and
\* without a fullscreen application
C11_ScoreMonotone ==
    ScanDone =>
        \A pm2 \in ProcMaps, fs \in BOOLEAN :
            RaisedOne(scan_in.proc_map, pm2) =>
                \A s \in Range(ScanWith(scan_in.proc_map, fs)) :
                    s.kind \in {"Startup App", "Service"} =>
                        \E t \in Range(ScanWith(pm2, fs)) :
                            t.name = s.name /\ t.kind = s.kind /\ t.score >= s.score

\* a scan whose matched service scores below the fullscreen limit, and at or
\* above it once one metric is raised
C11_Witness ==
    /\ ScanDone
    /\ \E pm2 \in ProcMaps :
          /\ RaisedOne(scan_in.proc_map, pm2)
          /\ \E s \in Range(ScanWith(scan_in.proc_map, TRUE)), t \in Range(ScanWith(pm2, TRUE)) :
                /\ s.kind = "Service" /\ s.matched /\ t.name = s.name /\ t.kind = s.kind
                /\ s.score + FullscreenPenalty < FullscreenLimit
                /\ t.score >= FullscreenLimit

\* the names the last scan looked at
Blacklisted(n) == n \in user_prefs.blacklist /\ n \notin user_prefs.whitelist
\* the tier of a suggestion: the recommendation to disable or to stop
Actionable(s) == s.advice \in {"disable", "stop"}
SuggestionsFor(n, kind) == {s \in Range(suggestions) : s.name = n /\ s.kind = kind}

\* C12: a blacklisted entry or service that is not whitelisted is reported in the
\* actionable tier with its remediation action, whatever its score and whether
\* or not a process matched it
C12_BlacklistActionable ==
    ScanDone =>
        /\ \A i \in 1..Len(scan_in.entries) :
              Blacklisted(scan_in.entries[i].name) =>
                  \E s \in SuggestionsFor(scan_in.entries[i].name, "Startup App") :
                      Actionable(s) /\ s.action = "disable"
        /\ \A i \in 1..Len(scan_in.services) :
              Blacklisted(scan_in.services[i].name) =>
                  \E s \in SuggestionsFor(scan_in.services[i].name, "Service") :
                      Actionable(s) /\ s.action = "stop"

\* C13: a startup entry or a service is in the actionable tier exactly when its
\* score is at least 60 or it is blacklisted
C13_SingleThreshold ==
    ScanDone =>
        \A s \in Range(suggestions) :
            s.kind \in {"Startup App", "Service"} =>
                (Actionable(s) <=> (s.score >= StartupThreshold \/ s.name \in user_prefs.blacklist))

\* no context modifier applies to the last scan
NoModifiers ==
    LET ctx == Context(scan_in.battery, scan_in.disk_pct, scan_in.probe, scan_in.raised)
    IN  /\ ~(ctx.battery.present /\ ctx.battery.percent < BatteryLow)
        /\ ctx.disk_pct <= DiskFull
        /\ ~ctx.fullscreen

\* the scan of the entry Updater, started from a Temp directory, in no list,
\* matched to a process with cpu 1.0 and mem 0.3
UpdaterScenario ==
    /\ ScanDone
    /\ scan_in.entries = <<Entry(HKCU, RunPath, Updater, TempCmd)>>
    /\ Updater \notin user_prefs.whitelist \cup user_prefs.blacklist
    /\ Len(scan_in.proc_map) = 1
    /\ scan_in.proc_map[1].info \in QuietProcs
    /\ NoModifiers

\* C14: in that scan the entry is counted as suspicious, so that it scores
\* int(1.0 * 2 + 0.3 * 0.5 + 15 + 20) = 37, in the informational tier
C14_UpdaterScores37 ==
    UpdaterScenario =>
        \A s \in SuggestionsFor(Updater, "Startup App") :
            s.matched /\ s.score = 37 /\ ~Actionable(s)

\* C15: a whitelisted startup entry or service gets no suggestion at all,
\* whatever its process does and whether or not it is blacklisted as well
C15_WhitelistSkipped ==
    ScanDone =>
        /\ \A i \in 1..Len(scan_in.entries) :
              scan_in.entries[i].name \in user_prefs.whitelist =>
                  SuggestionsFor(scan_in.entries[i].name, "Startup App") = {}
        /\ \A i \in 1..Len(scan_in.services) :
              scan_in.services[i].name \in user_prefs.whitelist =>
                  SuggestionsFor(scan_in.services[i].name, "Service") = {}

\* a scan of a whitelisted and blacklisted entry with a busy matched process,
\* and of a whitelisted service
C15_Witness ==
    /\ ScanDone
    /\ Len(scan_in.entries) = 1 /\ Len(scan_in.services) = 1 /\ Len(scan_in.proc_map) = 1
    /\ scan_in.entries[1].name \in user_prefs.whitelist \cap user_prefs.blacklist
    /\ scan_in.services[1].name \in user_prefs.whitelist
    /\ StartupMatches(scan_in.entries[1].name, scan_in.entries[1].cmd, scan_in.proc_map[1].info)
    /\ scan_in.proc_map[1].info[2] = MaxCpu * 10
    /\ suggestions = <<SystemOk>>

-----------------------------------------------------------------------------
(* The sampler claims: what is read off the caches and off proc_map *)

SeenPids == {os_seen[i].pid : i \in 1..Len(os_seen)}
Cached(cache) == {pid \in Pids : cache[pid] # NoPrev}

\* C16: the previous-sample caches hold entries only for pids of the most
\* recent sample
C16_CachesPruned ==
    Cached(prev_disk) \subseteq SeenPids /\ Cached(prev_net) \subseteq SeenPids

IsSampled(p) == ~is_system_process_name(p.name)
\* the counters a sample reads off a process: zero when io_counters() is denied
ReadOf(p) == IF p.readable THEN p.read_bytes ELSE 0
WrittenOf(p) == IF p.readable THEN p.write_bytes ELSE 0
OpsOf(p) == IF p.readable THEN p.other_count + p.read_count ELSE 0
InfosOf(pm, pid) == {pm[k].info : k \in {j \in 1..Len(pm) : pm[j].pid = pid}}

\* C17: for a pid sampled twice in a row, the reported disk delta and net delta
\* are max(0, current - previous) of its own counters, and no delta is negative,
\* also when its counters cannot be read in the second sample
C17_DeltasFromCounters ==
    [][/\ \A k \in 1..Len(gui_proc_map') :
             gui_proc_map'[k].info[4] >= 0 /\ gui_proc_map'[k].info[5] >= 0
       /\ \A i \in 1..Len(os_seen'), j \in 1..Len(os_seen) :
             (/\ os_seen'[i].pid = os_seen[j].pid
              /\ IsSampled(os_seen'[i]) /\ IsSampled(os_seen[j])
              /\ os_seen[j].readable)
             => \A info \in InfosOf(gui_proc_map', os_seen'[i].pid) :
                    /\ info[4] = MaxOf(0, ReadOf(os_seen'[i]) - ReadOf(os_seen[j]))
                                 + MaxOf(0, WrittenOf(os_seen'[i]) - WrittenOf(os_seen[j]))
                    /\ info[5] = MaxOf(0, OpsOf(os_seen'[i]) - OpsOf(os_seen[j]))]_vars

-----------------------------------------------------------------------------
(* The enumeration claims: what is read off table_startup *)

\* the table shows the stores as they are
TableFresh ==
    /\ table_startup # <<>>
    /\ \E denied \in BOOLEAN :
          table_startup = UpdateStartupTab(reg, approved, lnk, lnk_disabled, denied)

\* the normalized identity of a record: its name, lower-cased
IdentityOf(e) == LowerName(e.name)

\* C18: the enumerated list holds one entry per normalized identity
C18_OneEntryPerIdentity ==
    TableFresh =>
        \A i, j \in 1..Len(table_startup) :
            IdentityOf(table_startup[i]) = IdentityOf(table_startup[j]) => i = j

\* C19: when a registry record and a startup-folder record are merged, the
\* entry that is kept is the one of the startup folder
C19_FolderPreferred ==
    TableFresh =>
        \A r \in Range(ListRegistryStartup(reg)), f \in Range(FolderEntries(lnk, lnk_disabled)) :
            DedupKey(r) = DedupKey(f) =>
                \A i \in 1..Len(table_startup) :
                    DedupKey(RowEntry(table_startup[i])) = DedupKey(f) =>
                        ~Truthy(table_startup[i].path)

\* C20: an enumeration that finds an entry both in its primary and in its
\* shadow location reports its status as Unknown
C20_BothPlacesIsUnknown ==
    TableFresh =>
        \A i \in 1..Len(table_startup) :
            (LiveOf(RowEntry(table_startup[i])) /\ ShadowOf(RowEntry(table_startup[i])))
                => table_startup[i].status = "Unknown"

-----------------------------------------------------------------------------
(* C21: one on-demand scan at a time *)

\* the threads that are inside a scan: run_all_checks between its first step and
\* its return, scan_for_suggestions on the GUI thread
Scanning ==
    {<<"ai", w>> : w \in {v \in Workers : ai_worker[v].pc \notin {"idle", "started"}}}
        \cup (IF gui_pc = "scanning" THEN {<<"gui", 0>>} ELSE {})

\* C21: at most one on-demand scan, a full AI scan or a suggestions refresh,
\* executes at any time
C21_OneScanAtATime == Cardinality(Scanning) <= 1

\* two full AI scans never overlap
AiScansExclude == Cardinality({s \in Scanning : s[1] = "ai"}) <= 1

-----------------------------------------------------------------------------
(* C22: nothing to restore, nothing to remove *)

\* the handler run that this step is: the outcome it leaves in lastOp
Ran(op) == lastOp' # lastOp /\ lastOp'.op = op /\ lastOp'.end = "returned" /\ lastOp'.failed = {}
Acted == Entry(lastOp'.hive, lastOp'.path, lastOp'.name, lastOp'.cmd)
WroteApproval(o) == \E v \in Views : ("approval_" \o v) \in o.wrote

\* C22: Enable of an entry that has no shadow copy and no known command
\* reports a failure and writes no approval flag; Disable or Delete of an
\* entry that has vanished reports nothing
C22_NotFound ==
    [][/\ (Ran("enable") /\ ~ShadowOf(Acted) /\ ~Truthy(Acted.cmd))
            => (~Clean(lastOp') /\ ~WroteApproval(lastOp'))
       /\ (\E op \in {"disable", "delete"} : Ran(op) /\ ~LiveOf(Acted) /\ ~ShadowOf(Acted))
            => Clean(lastOp')]_vars

-----------------------------------------------------------------------------
(* C23: backup before a Run value is deleted *)

\* backup_registry_value was called in the run: it wrote the file, or it failed
BackupAttempted(o) == "backup" \in (o.log \cup o.failed)

\* C23: a handler that removes a value from a Run key has attempted a backup of
\* that value first
C23_BackupBeforeDelete ==
    [][\A h \in Hives, n \in Names :
          (reg[h][RunPath][n] # NoVal /\ reg'[h][RunPath][n] = NoVal)
              => BackupAttempted(lastOp')]_vars

-----------------------------------------------------------------------------
(* C24: a disabled Run entry stays in the enumeration *)

\* the table the next enumeration builds, no registry read being denied
NextEnumeration == UpdateStartupTab(reg, approved, lnk, lnk_disabled, FALSE)

\* C24: after a Disable of a Run value that reported nothing, the next
\* enumeration has a row of that identity whose status is Disabled
C24_DisabledStillListed ==
    (/\ lastOp.op = "disable" /\ Clean(lastOp)
     /\ Truthy(lastOp.path) /\ lastOp.pre.val # NoVal)
        => \E i \in 1..Len(NextEnumeration) :
               /\ IdentityOf(RowEntry(NextEnumeration[i])) = IdentityOf(LastEntry)
               /\ NextEnumeration[i].status = "Disabled"

-----------------------------------------------------------------------------
(* C25: Enable of a shortcut keeps both files *)

\* <name>.lnk and <name>.lnk.disabled are both in folder f
BothIn(f, n) == FileAt(lnk, f, n) # NoFile /\ FileAt(lnk_disabled, f, n) # NoFile

\* C25: Enable of a startup-folder entry leaves <name>.lnk and
\* <name>.lnk.disabled as they are in a folder that holds both, and logs that
\* both are kept
C25_EnableKeepsBoth ==
    [][\A f \in Folders :
          (lastOp'.op = "enable" /\ ~Truthy(lastOp'.path) /\ BothIn(f, lastOp'.name))
              => /\ lnk'[f] = lnk[f]
                 /\ lnk_disabled'[f] = lnk_disabled[f]
                 /\ (lastOp' # lastOp /\ lastOp'.end = "returned")
                        => "skip_keeping_both" \in lastOp'.log]_vars

C25_Witness ==
    /\ lastOp.op = "enable" /\ ~Truthy(lastOp.path)
    /\ "skip_keeping_both" \in lastOp.log
    /\ \E f \in Folders : BothIn(f, lastOp.name)

-----------------------------------------------------------------------------
(* C26: the preference file *)

\* C26: when user_prefs.json is missing, is not JSON, or is not a document with
\* a whitelist and a blacklist list, the lists are empty, the file is as it
\* was, and the scan that follows completes
C26_BadPrefsFallBack ==
    [][(scan_in.kind = "pending" /\ ~WellFormed(scan_in.file))
          => /\ user_prefs = EmptyPrefs
             /\ scan_in'.file = scan_in.file
             /\ scan_in'.kind = "done"]_vars

-----------------------------------------------------------------------------
(* C27: copy, then delete *)

\* the value a Disable or an Enable of the entry e moves, as it is before the run
MovedBy(op, e) ==
    IF op = "disable" THEN reg[e.hive][e.path][e.name]
    ELSE reg[e.hive][DisabledPathOf(e.path)][e.name]

\* C27: whatever a Disable or an Enable of a registry entry runs into, a
\* failing call or the end of the process, the value it moves is afterwards,
\* with its data and its type, under Run or under RunDisabled
C27_ValueNeverLost ==
    [][(lastOp'.op \in {"disable", "enable"} /\ Truthy(lastOp'.path)
            /\ MovedBy(lastOp'.op, Acted) # NoVal)
          => \/ reg'[Acted.hive][Acted.path][Acted.name] = MovedBy(lastOp'.op, Acted)
             \/ reg'[Acted.hive][DisabledPathOf(Acted.path)][Acted.name]
                    = MovedBy(lastOp'.op, Acted)]_vars

\* a Disable or an Enable stopped between its copy and its delete
C27_Witness ==
    /\ lastOp.op \in {"disable", "enable"} /\ Truthy(lastOp.path)
    /\ lastOp.end = "crashed" \/ lastOp.failed # {}
    /\ LiveOf(LastEntry) /\ ShadowOf(LastEntry)

-----------------------------------------------------------------------------
(* C28: entries without hive and path *)

\* C28: Disable, Enable and Delete of an entry that has no hive and no path
\* change no Run or RunDisabled value and no approval record other than the
\* one of the StartupFolder key
C28_FolderEntryLeavesRegistry ==
    [][(IsTransition(lastOp') /\ ~Truthy(lastOp'.hive) /\ ~Truthy(lastOp'.path))
          => /\ reg' = reg
             /\ \A aid \in ApprIds \ {<<HKCU, ApprovedFolderPath>>} :
                    approved'[aid] = approved[aid]]_vars

\* such an entry was acted on, on a machine that has a registry value
C28_Witness ==
    /\ IsTransition(lastOp) /\ ~Truthy(lastOp.hive) /\ ~Truthy(lastOp.path)
    /\ lastOp.wrote # {}
    /\ \E h \in Hives, key \in ValueKeys : reg[h][key][lastOp.name] # NoVal

-----------------------------------------------------------------------------
(* C29, C30: a full AI scan *)

\* the run of worker w is over
Ended(w) == ai_worker[w].end # "none" /\ ai_worker[w].pc = "idle"

\* C29: in a full scan a step that raises adds no suggestion and the steps
\* after it run; the trends are flushed and the history is saved before the
\* scan returns its result, and the lock is free afterwards
C29_ScanAlwaysFlushesAndSaves ==
    \A w \in Workers :
        /\ \A step \in ai_worker[w].raised : step \notin Range(ai_worker[w].results)
        /\ (Ended(w) /\ ai_worker[w].raised # {})
              => /\ ai_worker[w].end = "returned"
                 /\ ai_worker[w].flushed /\ ai_worker[w].saved
                 /\ ai_lock # w

\* the last n elements of s
LastOf(s, n) == IF Len(s) > n THEN SubSeq(s, Len(s) - n + 1, Len(s)) ELSE s

====
